---- MODULE Spec2Model ----
(***************************************************************************)
(* Event compiler and playback engine of the piano autoplayer              *)
(* (src/player.py) with the output backend contract (src/output.py).       *)
(*                                                                         *)
(* Time is counted in ticks of 0.5 ms, so that the 0.0005 s batch          *)
(* tolerance of Player._loop_body is exactly one tick.                     *)
(***************************************************************************)
EXTENDS Integers, Sequences, FiniteSets, TLC

\* ------------------------------------------------------------------ bounds
\* Largest number of input notes of a compile call.
MaxNotes == 2

\* Largest number of control calls (stop, toggle_pause, seek) of a session.
MaxCtl == 3
\* How far the clock runs past its first reading, in ticks.
MaxElapsed == 208
\* The reading of time.perf_counter() when the Player is built, in ticks.
Epoch == 100
\* How far the clock runs past the grace margin of a score that is longer
\* than MaxElapsed, in ticks.
MaxOverrun == 4
\* Largest number of key injections that fail inside the backend in a
\* session with failures, and of control calls made in such a session.
MaxFaults == 1
MaxFaultCtl == 1
\* Largest number of control calls of a session checked for termination.
MaxStopCtl == 2
\* Largest number of control calls of a session checked batch by batch.
MaxBatchCtl == 2

\* Largest pitch and velocity of a note message.
MaxPitch == 127
MaxVelocity == 127
\* How far below 0 and above 11 the values of a raw frame go.
DigitSlack == 1

\* ------------------------------------------------------ program constants
\* Batch tolerance of _loop_body, 0.0005 s.
BatchTol == 1
\* Grace margin after the last event, 0.1 s.
Grace == 200
\* Progress is emitted at most every 1/30 s (66.7 ticks).
ProgressIv == 67
\* sys.setswitchinterval(0.0005)
FastSwitch == 1
\* The interpreter's default switch interval, 0.005 s.
DefaultSwitch == 10

\* ------------------------------------------------------- input alphabets
Pitches == {60, 61}
Hands == {"left", "right", "unknown"}
Starts == {0, 1}
Durations == {0, 1}
Jitters == {0, 1}
PedalPriorities == {1, 3}

\* The value of KeyEvent.pitch of a pedal event (Python None).
None == -1

VARIABLES
    \* ---- EventCompiler.compile
    notes,              \* the caller's note list
    sections,           \* the caller's section list
    config,             \* [humanize, enable_mistakes, countdown]
    pedal_events,       \* what PedalGenerator.generate_events returns
    jitter,             \* onset shift chosen by the humanizer
    work,               \* compile's working copy of the notes
    heap,               \* compile's heap (a Python heapq list)
    played_in_section,  \* pitches already seen in the current section
    cur_sec,            \* index of the current section, -1 for none
    ni,                 \* position of the note loop (1-based)
    cpc,                \* where compile is: start, notes, pop, done
    events              \* compile's result = Player.events

VARIABLES
    \* ---- Player fields
    total_duration,     \* Player.total_duration
    event_index,        \* Player.event_index
    stop_event,         \* Player.stop_event (is it set)
    pause_event,        \* Player.pause_event (is it set)
    start_time,         \* Player.start_time
    total_paused_time,  \* Player.total_paused_time
    _pause_ts,          \* Player._pause_ts
    _pending_shutdown,  \* Player._pending_shutdown
    \* ---- the clock and the thread that runs play()
    now,                \* time.perf_counter()
    pc,                 \* where the worker is in play / _run_loop / _loop_body
    loc,                \* the worker's locals
    \* ---- the interpreter and OS timer settings touched by _run_loop
    timer,              \* [switchinterval, periods]
    \* ---- the backend (NumpadBackend state) and what was called on it
    backend,            \* [active_notes, pedal_down]
    calls,              \* every backend call so far, in order
    batch_calls,        \* the backend calls of the current _execute_batch
    \* ---- Qt signals emitted
    signals,            \* [status, finished, auto_paused, progress]
    \* ---- bookkeeping of the control calls made so far
    hist,               \* [ctl, stops, seeks, pause_pt, pause_clean, seek_t,
                        \*  seek_open, fresh, restart, sought]
    \* ---- the key injections that failed inside the backend
    faults              \* [left, lost]

VARIABLES
    \* ---- the numpad encoder (RobloxMidiConnect_encoder module state)
    rmc,                \* [pc, platform, pydirectinput, batched,
                        \*  numlock_ensured, call, args, taps, path, keys, ok]
    \* ---- a concrete backend with what it emits (output.py)
    dev                 \* [kind, active_notes, states, pedal_down, last, out]

playerVars == <<total_duration, event_index, stop_event, pause_event, start_time,
                total_paused_time, _pause_ts, _pending_shutdown, now, pc, loc,
                timer, backend, calls, batch_calls, signals, hist, faults>>

outputVars == <<rmc, dev>>

compileVars == <<notes, sections, config, pedal_events, jitter, work, heap,
                 played_in_section, cur_sec, ni, cpc, events>>

\* ---------------------------------------------------------------- models
\* Note.end_time
end_time(n) == n.start_time + n.duration

KeyEvent(time, priority, action, key_char, pitch, velocity) ==
    [time |-> time, priority |-> priority, action |-> action,
     key_char |-> key_char, pitch |-> pitch, velocity |-> velocity]

\* KeyEvent.__lt__: events order by time, then by the priority they carry.
KeyEventLT(a, b) ==
    \/ a.time < b.time
    \/ a.time = b.time /\ a.priority < b.priority

\* KeyMapper.is_black_key
is_black_key(p) == (p % 12) \in {1, 3, 6, 8, 10}

\* ----------------------------------------------------------------- heapq
RECURSIVE _siftdown(_, _, _, _)
\* heapq._siftdown: move newitem up from pos towards startpos (1-based).
_siftdown(h, startpos, pos, newitem) ==
    IF pos > startpos /\ KeyEventLT(newitem, h[pos \div 2])
    THEN _siftdown([h EXCEPT ![pos] = h[pos \div 2]], startpos, pos \div 2, newitem)
    ELSE [h EXCEPT ![pos] = newitem]

RECURSIVE _siftup_walk(_, _, _)
\* heapq._siftup, first loop: bubble the smaller child up until a leaf.
\* Returns the heap and the leaf position reached.
_siftup_walk(h, pos, endpos) ==
    LET childpos == 2 * pos
        rightpos == childpos + 1
        c == IF rightpos <= endpos /\ ~KeyEventLT(h[childpos], h[rightpos])
             THEN rightpos ELSE childpos
    IN  IF childpos <= endpos
        THEN _siftup_walk([h EXCEPT ![pos] = h[c]], c, endpos)
        ELSE [heap |-> h, pos |-> pos]

_siftup(h, pos) ==
    LET newitem == h[pos]
        w == _siftup_walk(h, pos, Len(h))
    IN  _siftdown(w.heap, pos, w.pos, newitem)

\* A push that leaves the new item at the end of the list.
heappush_as_append(h, item) == Append(h, item)

\* heapq.heappush
heappush(h, item) == _siftdown(Append(h, item), 1, Len(h) + 1, item)

\* A pop that moves the last item to the root and leaves it there.
heappop_as_unsifted(h) ==
    LET lastelt == h[Len(h)]
        rest == SubSeq(h, 1, Len(h) - 1)
    IN  IF rest # <<>>
        THEN [item |-> h[1], heap |-> [rest EXCEPT ![1] = lastelt]]
        ELSE [item |-> lastelt, heap |-> rest]

\* heapq.heappop: [item, heap]
heappop(h) ==
    LET lastelt == h[Len(h)]
        rest == SubSeq(h, 1, Len(h) - 1)
    IN  IF rest # <<>>
        THEN [item |-> h[1], heap |-> _siftup([rest EXCEPT ![1] = lastelt], 1)]
        ELSE [item |-> lastelt, heap |-> rest]

\* ------------------------------------------------- EventCompiler.compile
\* Priority values compile gives to the events it builds.
PressPriority == 2
ReleasePriority == 4

\* round(n.start_time, 2): to the nearest 10 ms = 20 ticks, halves to even.
round2(t) ==
    LET q == t \div 20
        r == t % 20
    IN  IF r < 10 \/ (r = 10 /\ q % 2 = 0) THEN 20 * q ELSE 20 * (q + 1)

\* Humanizer.apply_to_hand: shifts the onset of every note of one hand that
\* is not on a resync point by the humanizer's jitter.
apply_to_hand(ns, hand, resync, jit) ==
    [i \in 1..Len(ns) |->
        IF round2(ns[i].start_time) \in resync
        THEN ns[i]
        ELSE [ns[i] EXCEPT !.start_time = @ + jit]]

\* Humanizer.apply_tempo_rubato: stretches the notes of a section in place;
\* without a section there is nothing to stretch.
apply_tempo_rubato(ns, secs) ==
    [i \in 1..Len(ns) |->
        IF \E k \in 1..Len(secs) :
              secs[k].start_time <= ns[i].start_time
              /\ ns[i].start_time < secs[k].end_time
        THEN [ns[i] EXCEPT !.duration = @ + 1]
        ELSE ns[i]]

RECURSIVE sorted_insert(_, _)
\* One insertion of Python's stable sorted(): x goes after every element
\* whose start_time is not larger.
sorted_insert(s, x) ==
    IF s = <<>> THEN <<x>>
    ELSE IF x.start_time < s[1].start_time THEN <<x>> \o s
    ELSE <<s[1]>> \o sorted_insert(Tail(s), x)

RECURSIVE sorted_by_start(_)
\* sorted(left + right, key=lambda n: n.start_time)
sorted_by_start(s) ==
    IF s = <<>> THEN <<>>
    ELSE sorted_insert(sorted_by_start(SubSeq(s, 1, Len(s) - 1)), s[Len(s)])

\* A Note object: the fields of a Note and the identity of the object.
\* The objects of the caller's list ns are 1..Len(ns), in list order.
NoteObject(n, id) ==
    [pitch |-> n.pitch, velocity |-> n.velocity, start_time |-> n.start_time,
     duration |-> n.duration, hand |-> n.hand, obj |-> id]

\* The fields of a Note object.
NoteValue(o) ==
    [pitch |-> o.pitch, velocity |-> o.velocity, start_time |-> o.start_time,
     duration |-> o.duration, hand |-> o.hand]

\* A working list that holds the caller's own Note objects.
deepcopy_as_alias(ns) == [i \in 1..Len(ns) |-> NoteObject(ns[i], i)]

\* compile, line 69: copy.deepcopy(notes) builds a new list of new objects.
deepcopy(ns) == [i \in 1..Len(ns) |-> NoteObject(ns[i], Len(ns) + i)]

\* The caller's list after compile wrote to the objects objs: the same
\* objects in the same order, each with the fields it has now.
caller_notes(ns, objs) ==
    [i \in 1..Len(ns) |->
        IF \E j \in 1..Len(objs) : objs[j].obj = i
        THEN NoteValue(objs[CHOOSE j \in 1..Len(objs) : objs[j].obj = i])
        ELSE ns[i]]

\* compile, lines 69-84: the working copy, humanized when an option asks.
humanized(ns, secs, cfg, jit) ==
    IF cfg.humanize
    THEN LET left == SelectSeq(ns, LAMBDA n : n.hand = "left")
             right == SelectSeq(ns, LAMBDA n : n.hand = "right")
             resync == {round2(left[i].start_time) : i \in 1..Len(left)}
                       \cap {round2(right[i].start_time) : i \in 1..Len(right)}
             l2 == apply_to_hand(left, "left", resync, jit)
             r2 == apply_to_hand(right, "right", resync, jit)
         IN  apply_tempo_rubato(sorted_by_start(l2 \o r2), secs)
    ELSE ns

\* A section search that takes a section's end_time as inside it.
section_index_as_end_inclusive(note, secs) ==
    LET hits == {i \in 1..Len(secs) :
                    secs[i].start_time <= note.start_time
                    /\ note.start_time <= secs[i].end_time}
    IN  IF hits = {} THEN -1
        ELSE (CHOOSE i \in hits : \A j \in hits : i <= j) - 1

\* compile, lines 94-98: index (0-based) of the first section holding the
\* note's onset, -1 when none does.
section_index(note, secs) ==
    LET hits == {i \in 1..Len(secs) :
                    secs[i].start_time <= note.start_time
                    /\ note.start_time < secs[i].end_time}
    IN  IF hits = {} THEN -1
        ELSE (CHOOSE i \in hits : \A j \in hits : i <= j) - 1

\* EventCompiler._mistake_pitch: the values random.choice can return.
_mistake_pitch(original) ==
    IF is_black_key(original)
    THEN {original + d : d \in {-2, -1, 1, 2}}
    ELSE LET candidates == {p \in {original - 2, original - 1,
                                    original + 1, original + 2} :
                               ~is_black_key(p)}
         IN  IF candidates # {} THEN candidates ELSE {None}

\* A note step whose mistake is an added keystroke: the mistake pitch is
\* pressed and the note's own pitch as well.
note_step_as_added_keystroke(st, note, secs, cfg, hit, mp) ==
    LET sec_idx == section_index(note, secs)
        played == IF sec_idx # st.cur_sec THEN {} ELSE st.played_in_section
        pitch == note.pitch
        did_mistake == /\ cfg.enable_mistakes
                       /\ pitch \notin played
                       /\ hit
                       /\ mp # None
        h0 == IF did_mistake
              THEN heappush(heappush(st.heap,
                       KeyEvent(note.start_time, PressPriority, "press", "",
                                mp, note.velocity)),
                       KeyEvent(end_time(note), ReleasePriority, "release", "",
                                mp, 0))
              ELSE st.heap
        h1 == heappush(h0, KeyEvent(note.start_time, PressPriority,
                                    "press", "", pitch, note.velocity))
        h2 == heappush(h1, KeyEvent(end_time(note), ReleasePriority,
                                    "release", "", pitch, 0))
    IN  [heap |-> h2,
         played_in_section |-> played \cup {pitch},
         cur_sec |-> sec_idx]

\* A note step that remembers the pitch it pressed, not the note's.
note_step_as_pressed_remembered(st, note, secs, cfg, hit, mp) ==
    LET sec_idx == section_index(note, secs)
        played == IF sec_idx # st.cur_sec THEN {} ELSE st.played_in_section
        pitch == note.pitch
        did_mistake == /\ cfg.enable_mistakes
                       /\ pitch \notin played
                       /\ hit
                       /\ mp # None
        p == IF did_mistake THEN mp ELSE pitch
        h1 == heappush(st.heap, KeyEvent(note.start_time, PressPriority,
                                         "press", "", p, note.velocity))
        h2 == heappush(h1, KeyEvent(end_time(note), ReleasePriority,
                                    "release", "", p, 0))
    IN  [heap |-> h2,
         played_in_section |-> played \cup {p},
         cur_sec |-> sec_idx]

\* compile, lines 93-127: one iteration of the note loop. hit is the
\* outcome of random.random() < mistake_chance, mp the mistake pitch drawn.
note_step(st, note, secs, cfg, hit, mp) ==
    LET sec_idx == section_index(note, secs)
        played == IF sec_idx # st.cur_sec THEN {} ELSE st.played_in_section
        pitch == note.pitch
        did_mistake == /\ cfg.enable_mistakes
                       /\ pitch \notin played
                       /\ hit
                       /\ mp # None
        p == IF did_mistake THEN mp ELSE pitch
        h1 == heappush(st.heap, KeyEvent(note.start_time, PressPriority,
                                         "press", "", p, note.velocity))
        h2 == heappush(h1, KeyEvent(end_time(note), ReleasePriority,
                                    "release", "", p, 0))
    IN  [heap |-> h2,
         played_in_section |-> played \cup {pitch},
         cur_sec |-> sec_idx]

RECURSIVE push_all_as_distinct(_, _)
\* A merge that leaves out a pedal event equal to one the heap holds.
push_all_as_distinct(h, pes) ==
    IF pes = <<>> THEN h
    ELSE IF \E i \in 1..Len(h) : h[i] = pes[1]
         THEN push_all_as_distinct(h, Tail(pes))
         ELSE push_all_as_distinct(heappush(h, pes[1]), Tail(pes))

RECURSIVE push_all(_, _)
\* compile, lines 130-131: push every pedal event.
push_all(h, pes) ==
    IF pes = <<>> THEN h ELSE push_all(heappush(h, pes[1]), Tail(pes))

RECURSIVE pop_all(_)
\* compile, lines 133-135: pop until the heap is empty.
pop_all(h) ==
    IF h = <<>> THEN <<>>
    ELSE LET r == heappop(h) IN <<r.item>> \o pop_all(r.heap)

RECURSIVE note_loop(_, _, _, _)
\* compile, lines 93-127 with no mistake drawn.
note_loop(st, ns, secs, cfg) ==
    IF ns = <<>> THEN st
    ELSE note_loop(note_step(st, ns[1], secs, cfg, FALSE, None),
                   Tail(ns), secs, cfg)

\* EventCompiler.compile with every random draw a miss.
compile(ns, secs, cfg, pes, jit) ==
    LET st0 == [heap |-> <<>>, played_in_section |-> {}, cur_sec |-> -1]
        st == note_loop(st0, humanized(ns, secs, cfg, jit), secs, cfg)
    IN  pop_all(push_all(st.heap, pes))


\* --------------------------------------------------------- compile inputs
\* The notes of a compile call. compile reads the hand only when it
\* humanizes (lines 75-78) and compares pitches only when it injects
\* mistakes (line 107): a field it never reads is held at one value. With
\* both stages on, the notes are those of one hand.
NoteSet(cfg) ==
    [pitch : IF cfg.enable_mistakes THEN Pitches ELSE {60},
     velocity : {64},
     start_time : Starts,
     duration : Durations,
     hand : IF ~cfg.humanize THEN {"unknown"}
            ELSE IF cfg.enable_mistakes THEN {"left"}
            ELSE Hands]

NoteLists(cfg) == UNION {[1..n -> NoteSet(cfg)] : n \in 0..MaxNotes}

SectionLists == {<<>>,
                 <<[start_time |-> 0, end_time |-> 1],
                   [start_time |-> 1, end_time |-> 3]>>}

\* A pedal event as PedalGenerator builds it: action 'pedal', key_char
\* 'down' or 'up', no pitch, and the priority the generator gives it.
PedalSet == {KeyEvent(t, p, "pedal", "down", None, 0) :
                t \in Starts, p \in PedalPriorities}

PedalLists == {<<>>} \cup {<<pe>> : pe \in PedalSet}

Configs == [humanize : BOOLEAN, enable_mistakes : BOOLEAN, countdown : {FALSE}]

NoJitter == 0

\* The texts of status_updated; "Error:" stands for every error text.
Messages == {"Get ready...", "3...", "2...", "1...", "Playing!",
             "Stopping playback...", "Resuming...", "Paused.",
             "Playback finished. Paused.", "Error:"}

\* No signal emitted yet. status counts the emissions of each text,
\* progress is the last value of progress_updated (-1: none yet).
Signals0 == [status |-> [m \in Messages |-> 0], finished |-> 0,
             auto_paused |-> 0, progress |-> -1]

\* The worker's locals before play() runs.
Loc0 == [cd_i |-> 0, w_now |-> 0, tmp |-> 0, pt |-> 0, nxt |-> 0, wait |-> 0,
         deadline |-> 0, batch |-> <<>>, batch_time |-> 0, idx |-> 0,
         xlist |-> <<>>, last_progress |-> 0, exc |-> FALSE,
         old_switch |-> 0]

\* The record of the control calls before the first one. ctl, stops and
\* seeks count the calls (seeks: the seek a resume past the end makes
\* included); pause_pt is the playback time at the last pause made by
\* toggle_pause and pause_clean says that this pause was made after play()
\* captured its clock reference and that no seek or resume came since;
\* seek_t is the target of a seek made on a paused, started player since
\* which no toggle_pause or seek on a playing player came (-1: none);
\* seek_open says that a seek was made since the last backend.shutdown()
\* and fresh holds the events the loop took from the cursor while it was;
\* restart is the number of backend calls made when the last control call,
\* a toggle_pause, resumed a player whose cursor was at the end (-1: the
\* last control call was no such resume); sought is the cursor position
\* the last control call, a seek, found for its target, until the worker
\* dispatches an event (-1: no seek was the last control call, or an
\* event was dispatched since).
Hist0 == [ctl |-> 0, stops |-> 0, seeks |-> 0, pause_pt |-> 0,
          pause_clean |-> FALSE, seek_t |-> -1, seek_open |-> FALSE,
          fresh |-> {}, restart |-> -1, sought |-> -1]

\* The encoder of a session that sends no message.
EncoderUnused ==
    [pc |-> "idle", platform |-> "Linux", pydirectinput |-> FALSE,
     batched |-> FALSE, numlock_ensured |-> FALSE, call |-> "none",
     args |-> <<>>, taps |-> 0, path |-> "none", keys |-> <<>>, ok |-> TRUE]

\* No concrete backend is looked at: the session's backend is the
\* variable backend.
NoDevice ==
    [kind |-> "none", active_notes |-> {}, states |-> <<>>,
     pedal_down |-> FALSE, last |-> "none", out |-> <<>>]

\* No key injection has failed and none will.
NoFaults == [left |-> 0, lost |-> {}]

\* Player.__init__
PlayerInit ==
    /\ total_duration = IF events = <<>> THEN 0 ELSE events[Len(events)].time
    /\ event_index = 0
    /\ stop_event = FALSE
    /\ pause_event = FALSE
    /\ start_time = 0
    /\ total_paused_time = 0
    /\ _pause_ts = 0
    /\ _pending_shutdown = FALSE
    /\ now = Epoch
    /\ pc = "idle"
    /\ loc = Loc0
    /\ timer = [switchinterval |-> DefaultSwitch, periods |-> 0]
    /\ backend = [active_notes |-> {}, pedal_down |-> FALSE]
    /\ calls = <<>>
    /\ batch_calls = <<>>
    /\ signals = Signals0
    /\ hist = Hist0

\* ------------------------------------------------ compile, step by step
InitCompile ==
    /\ config \in Configs
    /\ notes \in NoteLists(config)
    /\ sections \in SectionLists
    /\ pedal_events \in PedalLists
    /\ jitter \in IF config.humanize THEN Jitters ELSE {NoJitter}
    /\ work = <<>>
    /\ heap = <<>>
    /\ played_in_section = {}
    /\ cur_sec = -1
    /\ ni = 1
    /\ cpc = "start"
    /\ events = <<>>
    /\ PlayerInit
    /\ faults = NoFaults
    /\ rmc = EncoderUnused
    /\ dev = NoDevice

\* A compile whose humanizer picks its onset shift anew in every call.
CompileBegin_as_fresh_jitter ==
    /\ cpc = "start"
    /\ \E j \in Jitters :
          LET objs == humanized(deepcopy(notes), sections, config, j)
          IN  /\ work' = [k \in 1..Len(objs) |-> NoteValue(objs[k])]
              /\ notes' = caller_notes(notes, objs)
    /\ heap' = <<>>
    /\ played_in_section' = {}
    /\ cur_sec' = -1
    /\ ni' = 1
    /\ cpc' = "notes"
    /\ UNCHANGED <<sections, config, pedal_events, jitter, events>>
    /\ UNCHANGED playerVars
    /\ UNCHANGED outputVars

\* compile, lines 69-91
CompileBegin ==
    /\ cpc = "start"
    /\ LET objs == humanized(deepcopy(notes), sections, config, jitter)
       IN  /\ work' = [j \in 1..Len(objs) |-> NoteValue(objs[j])]
           /\ notes' = caller_notes(notes, objs)
    /\ heap' = <<>>
    /\ played_in_section' = {}
    /\ cur_sec' = -1
    /\ ni' = 1
    /\ cpc' = "notes"
    /\ UNCHANGED <<sections, config, pedal_events, jitter, events>>
    /\ UNCHANGED playerVars
    /\ UNCHANGED outputVars

\* compile, lines 93-127: one note of the loop
CompileNote ==
    /\ cpc = "notes"
    /\ ni <= Len(work)
    /\ \E hit \in IF config.enable_mistakes THEN BOOLEAN ELSE {FALSE} :
       \E mp \in IF hit THEN _mistake_pitch(work[ni].pitch) ELSE {None} :
          LET st == note_step([heap |-> heap,
                               played_in_section |-> played_in_section,
                               cur_sec |-> cur_sec],
                              work[ni], sections, config, hit, mp)
          IN  /\ heap' = st.heap
              /\ played_in_section' = st.played_in_section
              /\ cur_sec' = st.cur_sec
    /\ ni' = ni + 1
    /\ UNCHANGED <<notes, sections, config, pedal_events, jitter, work, cpc, events>>
    /\ UNCHANGED playerVars
    /\ UNCHANGED outputVars

\* compile, lines 130-131: the pedal events join the heap
CompilePedals ==
    /\ cpc = "notes"
    /\ ni > Len(work)
    /\ heap' = push_all(heap, pedal_events)
    /\ cpc' = "pop"
    /\ UNCHANGED <<notes, sections, config, pedal_events, jitter, work,
                   played_in_section, cur_sec, ni, events>>
    /\ UNCHANGED playerVars
    /\ UNCHANGED outputVars

\* compile, lines 134-135: one heappop
CompilePop ==
    /\ cpc = "pop"
    /\ heap # <<>>
    /\ LET r == heappop(heap)
       IN  /\ events' = Append(events, r.item)
           /\ heap' = r.heap
    /\ UNCHANGED <<notes, sections, config, pedal_events, jitter, work,
                   played_in_section, cur_sec, ni, cpc>>
    /\ UNCHANGED playerVars
    /\ UNCHANGED outputVars

\* compile, line 136
CompileReturn ==
    /\ cpc = "pop"
    /\ heap = <<>>
    /\ cpc' = "done"
    /\ UNCHANGED <<notes, sections, config, pedal_events, jitter, work, heap,
                   played_in_section, cur_sec, ni, events>>
    /\ UNCHANGED playerVars
    /\ UNCHANGED outputVars

vars == <<compileVars, playerVars, outputVars>>

NextCompile ==
    \/ CompileBegin
    \/ CompileNote
    \/ CompilePedals
    \/ CompilePop
    \/ CompileReturn

SpecCompile == InitCompile /\ [][NextCompile]_vars


\* The section lists a compile call is checked with for its section
\* search: none, two that meet at time 1, two that overlap, and one
\* that starts after time 0.
SearchedSectionLists ==
    {<<>>,
     <<[start_time |-> 0, end_time |-> 1], [start_time |-> 1, end_time |-> 3]>>,
     <<[start_time |-> 0, end_time |-> 2], [start_time |-> 1, end_time |-> 3]>>,
     <<[start_time |-> 1, end_time |-> 2]>>}

InitSections ==
    /\ config \in Configs
    /\ notes \in NoteLists(config)
    /\ sections \in SearchedSectionLists
    /\ pedal_events = <<>>
    /\ jitter \in IF config.humanize THEN Jitters ELSE {NoJitter}
    /\ work = <<>>
    /\ heap = <<>>
    /\ played_in_section = {}
    /\ cur_sec = -1
    /\ ni = 1
    /\ cpc = "start"
    /\ events = <<>>
    /\ PlayerInit
    /\ faults = NoFaults
    /\ rmc = EncoderUnused
    /\ dev = NoDevice

SpecSections == InitSections /\ [][NextCompile]_vars

\* The lists PedalGenerator.generate_events returns to a compile call that
\* is checked for its merge: none; a press and a lift in time order, at
\* either priority; the two in the other order; and two equal events.
MergedPedalLists ==
    {<<>>}
    \cup {<<KeyEvent(0, p, "pedal", "down", None, 0),
            KeyEvent(1, p, "pedal", "up", None, 0)>> : p \in PedalPriorities}
    \cup {<<KeyEvent(1, 1, "pedal", "up", None, 0),
            KeyEvent(0, 1, "pedal", "down", None, 0)>>,
          <<KeyEvent(0, 1, "pedal", "down", None, 0),
            KeyEvent(0, 1, "pedal", "down", None, 0)>>}

InitMerge ==
    /\ config \in Configs
    /\ notes \in NoteLists(config)
    /\ sections \in SectionLists
    /\ pedal_events \in MergedPedalLists
    /\ jitter \in IF config.humanize THEN Jitters ELSE {NoJitter}
    /\ work = <<>>
    /\ heap = <<>>
    /\ played_in_section = {}
    /\ cur_sec = -1
    /\ ni = 1
    /\ cpc = "start"
    /\ events = <<>>
    /\ PlayerInit
    /\ faults = NoFaults
    /\ rmc = EncoderUnused
    /\ dev = NoDevice

SpecMerge == InitMerge /\ [][NextCompile]_vars

\* The pitches at the two ends of the keyboard and in its middle: the
\* lowest white and black key, middle C, the highest black and white key.
EdgePitches == {0, 1, 60, 126, 127}

\* A compile call with mistakes on, on notes at the ends of the keyboard.
InitEdge ==
    /\ config = [humanize |-> FALSE, enable_mistakes |-> TRUE,
                 countdown |-> FALSE]
    /\ notes \in UNION {[1..n -> [pitch : EdgePitches, velocity : {64},
                                  start_time : {0}, duration : {1},
                                  hand : {"unknown"}]] : n \in 0..MaxNotes}
    /\ sections = <<>>
    /\ pedal_events = <<>>
    /\ jitter = NoJitter
    /\ work = <<>>
    /\ heap = <<>>
    /\ played_in_section = {}
    /\ cur_sec = -1
    /\ ni = 1
    /\ cpc = "start"
    /\ events = <<>>
    /\ PlayerInit
    /\ faults = NoFaults
    /\ rmc = EncoderUnused
    /\ dev = NoDevice

SpecEdge == InitEdge /\ [][NextCompile]_vars

\* =========================================================== the Player
\* ---------------------------------------------------------- the backend
\* A dispatch that sends a release to note_on.
call_of_as_release_pressed(e) ==
    CASE e.action = "pedal" -> IF e.key_char = "down" THEN "pedal_on" ELSE "pedal_off"
      [] OTHER -> "note_on"

\* The backend method an event is dispatched to (_execute_batch).
call_of(e) ==
    CASE e.action = "pedal" -> IF e.key_char = "down" THEN "pedal_on" ELSE "pedal_off"
      [] e.action = "release" -> "note_off"
      [] OTHER -> "note_on"

\* A backend whose shutdown releases the notes and leaves the pedal.
backend_after_as_pedal_kept(b, op, pitch) ==
    CASE op = "note_on" -> [b EXCEPT !.active_notes = @ \cup {pitch}]
      [] op = "note_off" -> [b EXCEPT !.active_notes = @ \ {pitch}]
      [] op = "pedal_on" -> [b EXCEPT !.pedal_down = TRUE]
      [] op = "pedal_off" -> [b EXCEPT !.pedal_down = FALSE]
      [] OTHER -> [b EXCEPT !.active_notes = {}]

\* NumpadBackend.note_on / note_off / pedal_on / pedal_off / shutdown:
\* the backend's state after the call.
backend_after(b, op, pitch) ==
    CASE op = "note_on" -> [b EXCEPT !.active_notes = @ \cup {pitch}]
      [] op = "note_off" -> [b EXCEPT !.active_notes = @ \ {pitch}]
      [] op = "pedal_on" -> [b EXCEPT !.pedal_down = TRUE]
      [] op = "pedal_off" -> [b EXCEPT !.pedal_down = FALSE]
      [] OTHER -> [active_notes |-> {}, pedal_down |-> FALSE]

\* One entry of the call log: the method and the position in Player.events
\* of the event it dispatches (0 for shutdown).
Call(op, ev) == [op |-> op, ev |-> ev]

\* ------------------------------------------------------------ the clock
\* Playback time as _loop_body computes it (line 275), at the current clock.
PT == (now - start_time) - total_paused_time

\* Time passes where a thread waits: before a caller makes a control
\* call, and while the worker sleeps. The steps of the worker that do not
\* sleep take no time.
CtlDelays == {1}
SleepDelays == {0, Grace + 1}
CountdownDelays == {1}

\* The last clock reading looked at: MaxElapsed past the first, and past
\* the grace margin of the score played.
Horizon ==
    Epoch + (IF total_duration + Grace + MaxOverrun > MaxElapsed
             THEN total_duration + Grace + MaxOverrun
             ELSE MaxElapsed)

\* The clock readings after a wait of one of the delays ds; a wait that
\* takes no time is possible at every reading.
After(ds) == {now + d : d \in {x \in ds : x = 0 \/ now + x <= Horizon}}

\* ------------------------------------------------- the control operations
\* Each control call is one step: it runs on the caller's thread without
\* blocking. The worker's steps interleave between them.

Emit(sig, m) == [sig EXCEPT !.status[m] = @ + 1]

\* A completion notification that is not delivered.
emit_finished_as_dropped(sig) == sig

\* self.playback_finished.emit(), line 205
emit_finished(sig) == [sig EXCEPT !.finished = @ + 1]

RECURSIVE bisect_right(_, _, _, _)
\* bisect.bisect_right(times, x): the position after the items equal to x.
bisect_right(evs, x, lo, hi) ==
    IF lo < hi
    THEN LET mid == (lo + hi) \div 2
         IN  IF x < evs[mid + 1].time
             THEN bisect_right(evs, x, lo, mid)
             ELSE bisect_right(evs, x, mid + 1, hi)
    ELSE lo

RECURSIVE bisect_left(_, _, _, _)
\* bisect.bisect_left(times, x) on 0-based positions lo..hi.
bisect_left(evs, x, lo, hi) ==
    IF lo < hi
    THEN LET mid == (lo + hi) \div 2
         IN  IF evs[mid + 1].time < x
             THEN bisect_left(evs, x, mid + 1, hi)
             ELSE bisect_left(evs, x, lo, mid)
    ELSE lo

\* Player.seek, lines 228-237: the fields seek writes, from those it reads.
\* clock is what time.perf_counter() returns at line 231.
seek(target_time, paused, tpt, clock) ==
    [event_index |-> bisect_left(events, target_time, 0, Len(events)),
     total_paused_time |-> IF paused THEN 0 ELSE tpt,
     start_time |-> IF paused THEN clock - target_time
                    ELSE clock - target_time - tpt,
     _pause_ts |-> IF paused THEN clock ELSE _pause_ts]

\* A stop that leaves the pause flag as it is.
Stop_as_keep_pause ==
    /\ hist.ctl < MaxCtl
    /\ IF ~stop_event
       THEN /\ signals' = Emit(signals, "Stopping playback...")
            /\ stop_event' = TRUE
            /\ pause_event' = pause_event
       ELSE UNCHANGED <<signals, stop_event, pause_event>>
    /\ hist' = [hist EXCEPT !.ctl = @ + 1, !.stops = @ + 1, !.restart = -1,
                         !.sought = -1]
    /\ UNCHANGED <<total_duration, event_index, start_time, total_paused_time,
                   _pause_ts, _pending_shutdown, now, pc, loc, timer, backend,
                   calls, batch_calls, faults>>
    /\ UNCHANGED compileVars
    /\ UNCHANGED outputVars

\* A stop that shuts the backend down itself.
Stop_as_direct_shutdown ==
    /\ hist.ctl < MaxCtl
    /\ IF ~stop_event
       THEN /\ signals' = Emit(signals, "Stopping playback...")
            /\ stop_event' = TRUE
            /\ pause_event' = FALSE
            /\ backend' = backend_after(backend, "shutdown", None)
            /\ calls' = Append(calls, Call("shutdown", 0))
       ELSE UNCHANGED <<signals, stop_event, pause_event, backend, calls>>
    /\ hist' = [hist EXCEPT !.ctl = @ + 1, !.stops = @ + 1, !.restart = -1,
                         !.sought = -1]
    /\ UNCHANGED <<total_duration, event_index, start_time, total_paused_time,
                   _pause_ts, _pending_shutdown, now, pc, loc, timer,
                   batch_calls, faults>>
    /\ UNCHANGED compileVars
    /\ UNCHANGED outputVars

\* Player.stop
Stop ==
    /\ hist.ctl < MaxCtl
    /\ IF ~stop_event
       THEN /\ signals' = Emit(signals, "Stopping playback...")
            /\ stop_event' = TRUE
            /\ pause_event' = FALSE
       ELSE UNCHANGED <<signals, stop_event, pause_event>>
    /\ hist' = [hist EXCEPT !.ctl = @ + 1, !.stops = @ + 1, !.restart = -1,
                         !.sought = -1]
    /\ UNCHANGED <<total_duration, event_index, start_time, total_paused_time,
                   _pause_ts, _pending_shutdown, now, pc, loc, timer, backend,
                   calls, batch_calls, faults>>
    /\ UNCHANGED compileVars
    /\ UNCHANGED outputVars

\* Whether play() has captured its clock reference and reset the counters.
Started == pc \notin {"idle", "cd", "play_check", "reset_paused", "reset_index"}

\* Player.toggle_pause
TogglePause ==
    /\ hist.ctl < MaxCtl
    /\ now' \in After(CtlDelays)
    /\ IF pause_event
       THEN LET implicit == event_index >= Len(events)
                s == seek(0, TRUE, total_paused_time, now')
                ts == IF implicit THEN s._pause_ts ELSE _pause_ts
                tpt == IF implicit THEN s.total_paused_time ELSE total_paused_time
                pause_dur == now' - ts
            IN  /\ event_index' = IF implicit THEN s.event_index ELSE event_index
                /\ start_time' = IF implicit THEN s.start_time ELSE start_time
                /\ _pause_ts' = ts
                /\ _pending_shutdown' = (implicit \/ _pending_shutdown)
                /\ total_paused_time' = tpt + pause_dur
                /\ pause_event' = FALSE
                /\ signals' = [Emit(signals, "Resuming...") EXCEPT
                                 !.progress = IF implicit THEN 0 ELSE @]
                /\ hist' = [hist EXCEPT !.ctl = @ + 1,
                                        !.seeks = IF implicit THEN @ + 1 ELSE @,
                                        !.pause_clean = FALSE,
                                        !.seek_t = -1,
                                        !.seek_open = (implicit \/ @),
                                        !.restart = IF implicit
                                                    THEN Len(calls) ELSE -1,
                                        !.sought = -1]
       ELSE /\ _pause_ts' = now'
            /\ pause_event' = TRUE
            /\ _pending_shutdown' = TRUE
            /\ signals' = Emit(signals, "Paused.")
            /\ hist' = [hist EXCEPT !.ctl = @ + 1,
                                    !.pause_pt = (now' - start_time)
                                                 - total_paused_time,
                                    !.pause_clean = Started,
                                    !.seek_t = -1,
                                    !.restart = -1,
                                    !.sought = -1]
            /\ UNCHANGED <<event_index, start_time, total_paused_time>>
    /\ UNCHANGED <<total_duration, stop_event, pc, loc, timer, backend,
                   calls, batch_calls, faults>>
    /\ UNCHANGED compileVars
    /\ UNCHANGED outputVars

\* The times a caller seeks to: before, on and after the events.
SeekTargets == {0, 1, 5}

\* Player.seek
Seek(target_time) ==
    /\ hist.ctl < MaxCtl
    /\ now' \in After(CtlDelays)
    /\ LET s == seek(target_time, pause_event, total_paused_time, now')
       IN  /\ _pending_shutdown' = TRUE
           /\ event_index' = s.event_index
           /\ total_paused_time' = s.total_paused_time
           /\ start_time' = s.start_time
           /\ _pause_ts' = s._pause_ts
    /\ signals' = [signals EXCEPT !.progress = target_time]
    /\ hist' = [hist EXCEPT !.ctl = @ + 1,
                            !.seeks = @ + 1,
                            !.pause_clean = FALSE,
                            !.seek_t = IF pause_event /\ Started
                                       THEN target_time ELSE -1,
                            !.seek_open = TRUE,
                            !.restart = -1,
                            !.sought = bisect_left(events, target_time, 0,
                                                   Len(events))]
    /\ UNCHANGED <<total_duration, stop_event, pause_event, pc, loc,
                   timer, backend, calls, batch_calls, faults>>
    /\ UNCHANGED compileVars
    /\ UNCHANGED outputVars


\* ------------------------------------------------------------ the worker
\* What the worker leaves unchanged; of hist it writes seek_open, fresh
\* and sought, in the steps that call backend.shutdown(), take an event
\* or dispatch one.
ctlState == <<total_duration, stop_event, hist, faults>>

\* The locals that live across iterations of the loop.
Kept(l) == [Loc0 EXCEPT !.last_progress = l.last_progress,
                        !.exc = l.exc,
                        !.old_switch = l.old_switch]

\* play, lines 189-191 and _countdown, line 243
play_enter ==
    /\ pc = "idle"
    /\ IF config.countdown
       THEN /\ signals' = Emit(signals, "Get ready...")
            /\ loc' = [loc EXCEPT !.cd_i = 3]
            /\ pc' = "cd"
       ELSE /\ pc' = "play_check"
            /\ UNCHANGED <<signals, loc>>
    /\ UNCHANGED <<event_index, pause_event, start_time, total_paused_time,
                   _pause_ts, _pending_shutdown, now, timer, backend, calls,
                   batch_calls>>
    /\ UNCHANGED ctlState
    /\ UNCHANGED compileVars
    /\ UNCHANGED outputVars

\* _countdown, lines 244-248: one iteration (the sleep ends the step)
countdown_iter ==
    /\ pc = "cd"
    /\ IF stop_event
       THEN /\ pc' = "play_check"
            /\ loc' = [loc EXCEPT !.cd_i = 0]
            /\ UNCHANGED <<signals, now>>
       ELSE /\ signals' = Emit(signals, CASE loc.cd_i = 3 -> "3..."
                                          [] loc.cd_i = 2 -> "2..."
                                          [] OTHER -> "1...")
            /\ loc' = [loc EXCEPT !.cd_i = @ - 1]
            /\ pc' = IF loc.cd_i = 1 THEN "play_check" ELSE "cd"
            /\ now' \in After(CountdownDelays)
    /\ UNCHANGED <<event_index, pause_event, start_time, total_paused_time,
                   _pause_ts, _pending_shutdown, timer, backend, calls,
                   batch_calls>>
    /\ UNCHANGED ctlState
    /\ UNCHANGED compileVars
    /\ UNCHANGED outputVars

\* play, lines 192-196
play_check ==
    /\ pc = "play_check"
    /\ IF stop_event
       THEN /\ pc' = "finally"
            /\ UNCHANGED <<signals, start_time>>
       ELSE /\ signals' = Emit(signals, "Playing!")
            /\ start_time' = now
            /\ pc' = "reset_paused"
    /\ UNCHANGED <<event_index, pause_event, total_paused_time, _pause_ts,
                   _pending_shutdown, now, loc, timer, backend, calls,
                   batch_calls>>
    /\ UNCHANGED ctlState
    /\ UNCHANGED compileVars
    /\ UNCHANGED outputVars

\* play, line 197
play_reset_paused ==
    /\ pc = "reset_paused"
    /\ total_paused_time' = 0
    /\ pc' = "reset_index"
    /\ UNCHANGED <<event_index, pause_event, start_time, _pause_ts,
                   _pending_shutdown, now, loc, timer, backend, calls,
                   batch_calls, signals>>
    /\ UNCHANGED ctlState
    /\ UNCHANGED compileVars
    /\ UNCHANGED outputVars

\* play, line 198
play_reset_index ==
    /\ pc = "reset_index"
    /\ event_index' = 0
    /\ pc' = "run_loop"
    /\ UNCHANGED <<pause_event, start_time, total_paused_time, _pause_ts,
                   _pending_shutdown, now, loc, timer, backend, calls,
                   batch_calls, signals>>
    /\ UNCHANGED ctlState
    /\ UNCHANGED compileVars
    /\ UNCHANGED outputVars

\* _run_loop, lines 252-254
run_loop_enter ==
    /\ pc = "run_loop"
    /\ loc' = [loc EXCEPT !.old_switch = timer.switchinterval]
    /\ timer' = [switchinterval |-> FastSwitch, periods |-> timer.periods + 1]
    /\ pc' = "while"
    /\ UNCHANGED <<event_index, pause_event, start_time, total_paused_time,
                   _pause_ts, _pending_shutdown, now, backend, calls,
                   batch_calls, signals>>
    /\ UNCHANGED ctlState
    /\ UNCHANGED compileVars
    /\ UNCHANGED outputVars

\* A loop that does not look at the stop flag.
loop_while_as_unstoppable ==
    /\ pc = "while"
    /\ pc' = "pending"
    /\ UNCHANGED <<event_index, pause_event, start_time, total_paused_time,
                   _pause_ts, _pending_shutdown, now, loc, timer, backend,
                   calls, batch_calls, signals>>
    /\ UNCHANGED ctlState
    /\ UNCHANGED compileVars
    /\ UNCHANGED outputVars

\* _loop_body, line 265
loop_while ==
    /\ pc = "while"
    /\ pc' = IF stop_event THEN "loop_exit" ELSE "pending"
    /\ UNCHANGED <<event_index, pause_event, start_time, total_paused_time,
                   _pause_ts, _pending_shutdown, now, loc, timer, backend,
                   calls, batch_calls, signals>>
    /\ UNCHANGED ctlState
    /\ UNCHANGED compileVars
    /\ UNCHANGED outputVars

\* A loop that shuts the backend down in every iteration.
loop_pending_read_as_always ==
    /\ pc = "pending"
    /\ pc' = "pending_clear"
    /\ UNCHANGED <<event_index, pause_event, start_time, total_paused_time,
                   _pause_ts, _pending_shutdown, now, loc, timer, backend,
                   calls, batch_calls, signals>>
    /\ UNCHANGED ctlState
    /\ UNCHANGED compileVars
    /\ UNCHANGED outputVars

\* _loop_body, line 266
loop_pending_read ==
    /\ pc = "pending"
    /\ pc' = IF _pending_shutdown THEN "pending_clear" ELSE "pause_chk"
    /\ UNCHANGED <<event_index, pause_event, start_time, total_paused_time,
                   _pause_ts, _pending_shutdown, now, loc, timer, backend,
                   calls, batch_calls, signals>>
    /\ UNCHANGED ctlState
    /\ UNCHANGED compileVars
    /\ UNCHANGED outputVars

\* _loop_body, line 267
loop_pending_clear ==
    /\ pc = "pending_clear"
    /\ _pending_shutdown' = FALSE
    /\ pc' = "pending_call"
    /\ UNCHANGED <<event_index, pause_event, start_time, total_paused_time,
                   _pause_ts, now, loc, timer, backend, calls, batch_calls,
                   signals>>
    /\ UNCHANGED ctlState
    /\ UNCHANGED compileVars
    /\ UNCHANGED outputVars

\* _loop_body, line 268
loop_pending_call ==
    /\ pc = "pending_call"
    /\ backend' = backend_after(backend, "shutdown", None)
    /\ calls' = Append(calls, Call("shutdown", 0))
    /\ pc' = "pause_chk"
    /\ hist' = [hist EXCEPT !.seek_open = FALSE, !.fresh = {}]
    /\ UNCHANGED <<event_index, pause_event, start_time, total_paused_time,
                   _pause_ts, _pending_shutdown, now, loc, timer, batch_calls,
                   signals>>
    /\ UNCHANGED <<total_duration, stop_event, faults>>
    /\ UNCHANGED compileVars
    /\ UNCHANGED outputVars

\* _loop_body, lines 270-272 (time.sleep(0.05) ends the step)
loop_pause_chk ==
    /\ pc = "pause_chk"
    /\ IF pause_event
       THEN /\ pc' = "while"
            /\ now' \in After(SleepDelays)
       ELSE /\ pc' = "now"
            /\ now' = now
    /\ UNCHANGED <<event_index, pause_event, start_time, total_paused_time,
                   _pause_ts, _pending_shutdown, loc, timer, backend,
                   calls, batch_calls, signals>>
    /\ UNCHANGED ctlState
    /\ UNCHANGED compileVars
    /\ UNCHANGED outputVars

\* _loop_body, line 274 and the first operand of line 275
loop_now ==
    /\ pc = "now"
    /\ loc' = [loc EXCEPT !.w_now = now, !.tmp = now - start_time]
    /\ pc' = "pt"
    /\ UNCHANGED <<event_index, pause_event, start_time, total_paused_time,
                   _pause_ts, _pending_shutdown, now, timer, backend, calls,
                   batch_calls, signals>>
    /\ UNCHANGED ctlState
    /\ UNCHANGED compileVars
    /\ UNCHANGED outputVars

\* _loop_body, line 275
loop_pt ==
    /\ pc = "pt"
    /\ loc' = [loc EXCEPT !.pt = loc.tmp - total_paused_time, !.tmp = 0]
    /\ pc' = "end_chk"
    /\ UNCHANGED <<event_index, pause_event, start_time, total_paused_time,
                   _pause_ts, _pending_shutdown, now, timer, backend, calls,
                   batch_calls, signals>>
    /\ UNCHANGED ctlState
    /\ UNCHANGED compileVars
    /\ UNCHANGED outputVars

\* _loop_body, lines 277-278 and 286-287 (time.sleep(0.005) ends the step)
loop_end_chk ==
    /\ pc = "end_chk"
    /\ IF event_index >= Len(events)
       THEN IF loc.pt > total_duration + Grace
            THEN /\ pc' = "ap_ts"
                 /\ loc' = loc
                 /\ now' = now
            ELSE /\ pc' = "while"
                 /\ loc' = Kept(loc)
                 /\ now' \in After(SleepDelays)
       ELSE /\ pc' = "nxt"
            /\ loc' = loc
            /\ now' = now
    /\ UNCHANGED <<event_index, pause_event, start_time, total_paused_time,
                   _pause_ts, _pending_shutdown, timer, backend, calls,
                   batch_calls, signals>>
    /\ UNCHANGED ctlState
    /\ UNCHANGED compileVars
    /\ UNCHANGED outputVars

\* An auto-pause that moves the clock reference to the pause.
autopause_ts_as_rebase ==
    /\ pc = "ap_ts"
    /\ _pause_ts' = loc.w_now
    /\ start_time' = loc.w_now
    /\ pc' = "ap_set"
    /\ loc' = Kept(loc)
    /\ UNCHANGED <<event_index, pause_event, total_paused_time,
                   _pending_shutdown, now, timer, backend, calls, batch_calls,
                   signals>>
    /\ UNCHANGED ctlState
    /\ UNCHANGED compileVars
    /\ UNCHANGED outputVars

\* _loop_body, line 279
autopause_ts ==
    /\ pc = "ap_ts"
    /\ _pause_ts' = loc.w_now
    /\ pc' = "ap_set"
    /\ loc' = Kept(loc)
    /\ UNCHANGED <<event_index, pause_event, start_time, total_paused_time,
                   _pending_shutdown, now, timer, backend, calls, batch_calls,
                   signals>>
    /\ UNCHANGED ctlState
    /\ UNCHANGED compileVars
    /\ UNCHANGED outputVars

\* _loop_body, line 280
autopause_set ==
    /\ pc = "ap_set"
    /\ pause_event' = TRUE
    /\ pc' = "ap_pending"
    /\ UNCHANGED <<event_index, start_time, total_paused_time, _pause_ts,
                   _pending_shutdown, now, loc, timer, backend, calls,
                   batch_calls, signals>>
    /\ UNCHANGED ctlState
    /\ UNCHANGED compileVars
    /\ UNCHANGED outputVars

\* _loop_body, lines 281-285 (time.sleep(0.1) ends the step)
autopause_pending ==
    /\ pc = "ap_pending"
    /\ _pending_shutdown' = TRUE
    /\ signals' = [Emit(signals, "Playback finished. Paused.") EXCEPT
                     !.auto_paused = @ + 1]
    /\ pc' = "while"
    /\ now' \in After(SleepDelays)
    /\ UNCHANGED <<event_index, pause_event, start_time, total_paused_time,
                   _pause_ts, loc, timer, backend, calls, batch_calls>>
    /\ UNCHANGED ctlState
    /\ UNCHANGED compileVars
    /\ UNCHANGED outputVars

\* _loop_body, lines 289-290: events[self.event_index] raises IndexError
\* when a seek has moved the cursor to the end since line 277.
loop_nxt ==
    /\ pc = "nxt"
    /\ IF event_index >= Len(events)
       THEN /\ loc' = [Kept(loc) EXCEPT !.exc = TRUE]
            /\ pc' = "loop_exit"
       ELSE /\ loc' = [loc EXCEPT !.nxt = event_index + 1,
                                  !.wait = events[event_index + 1].time - loc.pt]
            /\ pc' = "sleep"
    /\ UNCHANGED <<event_index, pause_event, start_time, total_paused_time,
                   _pause_ts, _pending_shutdown, now, timer, backend, calls,
                   batch_calls, signals>>
    /\ UNCHANGED ctlState
    /\ UNCHANGED compileVars
    /\ UNCHANGED outputVars

\* _loop_body, lines 292-296 and _precise_sleep, lines 46-48
loop_sleep ==
    /\ pc = "sleep"
    /\ IF loc.wait > 0
       THEN /\ loc' = [loc EXCEPT !.deadline = now + loc.wait]
            /\ pc' = "spin"
       ELSE /\ loc' = [loc EXCEPT !.batch = <<>>,
                                  !.batch_time = events[loc.nxt].time]
            /\ pc' = "batch_cond"
    /\ UNCHANGED <<event_index, pause_event, start_time, total_paused_time,
                   _pause_ts, _pending_shutdown, now, timer, backend, calls,
                   batch_calls, signals>>
    /\ UNCHANGED ctlState
    /\ UNCHANGED compileVars
    /\ UNCHANGED outputVars

\* _precise_sleep, lines 49-52: the worker sleeps, then spins until the
\* clock reaches the deadline; then _loop_body, lines 295-296
loop_spin ==
    /\ pc = "spin"
    /\ loc.deadline <= Horizon
    /\ now' = IF now >= loc.deadline THEN now ELSE loc.deadline
    /\ loc' = [loc EXCEPT !.batch = <<>>,
                          !.batch_time = events[loc.nxt].time,
                          !.deadline = 0]
    /\ pc' = "batch_cond"
    /\ UNCHANGED <<event_index, pause_event, start_time, total_paused_time,
                   _pause_ts, _pending_shutdown, timer, backend, calls,
                   batch_calls, signals>>
    /\ UNCHANGED ctlState
    /\ UNCHANGED compileVars
    /\ UNCHANGED outputVars

\* _precise_sleep, lines 49-52, with a deadline after the last clock
\* reading looked at: the sleep ends at the deadline all the same.
loop_spin_late ==
    /\ pc = "spin"
    /\ loc.deadline > Horizon
    /\ now' = loc.deadline
    /\ loc' = [loc EXCEPT !.batch = <<>>,
                          !.batch_time = events[loc.nxt].time,
                          !.deadline = 0]
    /\ pc' = "batch_cond"
    /\ UNCHANGED <<event_index, pause_event, start_time, total_paused_time,
                   _pause_ts, _pending_shutdown, timer, backend, calls,
                   batch_calls, signals>>
    /\ UNCHANGED ctlState
    /\ UNCHANGED compileVars
    /\ UNCHANGED outputVars

\* _loop_body, line 297
batch_cond ==
    /\ pc = "batch_cond"
    /\ pc' = IF event_index < Len(events) THEN "batch_get" ELSE "exec"
    /\ UNCHANGED <<event_index, pause_event, start_time, total_paused_time,
                   _pause_ts, _pending_shutdown, now, loc, timer, backend,
                   calls, batch_calls, signals>>
    /\ UNCHANGED ctlState
    /\ UNCHANGED compileVars
    /\ UNCHANGED outputVars

\* A batch test that takes every event that is left.
in_batch_as_rest(e, batch_time) == TRUE

\* _loop_body, line 299: whether event e joins the batch anchored at
\* batch_time.
in_batch(e, batch_time) == e.time <= batch_time + BatchTol

\* A batch loop whose window moves on with every event it takes.
batch_get_as_sliding ==
    /\ pc = "batch_get"
    /\ IF event_index >= Len(events)
       THEN /\ loc' = [Kept(loc) EXCEPT !.exc = TRUE]
            /\ pc' = "loop_exit"
       ELSE IF in_batch(events[event_index + 1], loc.batch_time)
            THEN /\ loc' = [loc EXCEPT !.batch = Append(@, event_index + 1),
                                       !.batch_time = events[event_index + 1].time]
                 /\ pc' = "batch_inc_read"
            ELSE /\ loc' = loc
                 /\ pc' = "exec"
    /\ hist' = IF /\ hist.seek_open
                  /\ event_index < Len(events)
                  /\ in_batch(events[event_index + 1], loc.batch_time)
               THEN [hist EXCEPT !.fresh = @ \cup {event_index + 1}]
               ELSE hist
    /\ UNCHANGED <<event_index, pause_event, start_time, total_paused_time,
                   _pause_ts, _pending_shutdown, now, timer, backend, calls,
                   batch_calls, signals>>
    /\ UNCHANGED <<total_duration, stop_event, faults>>
    /\ UNCHANGED compileVars
    /\ UNCHANGED outputVars

\* _loop_body, lines 298-300 and 302-303
batch_get ==
    /\ pc = "batch_get"
    /\ IF event_index >= Len(events)
       THEN /\ loc' = [Kept(loc) EXCEPT !.exc = TRUE]
            /\ pc' = "loop_exit"
       ELSE IF in_batch(events[event_index + 1], loc.batch_time)
            THEN /\ loc' = [loc EXCEPT !.batch = Append(@, event_index + 1)]
                 /\ pc' = "batch_inc_read"
            ELSE /\ loc' = loc
                 /\ pc' = "exec"
    /\ hist' = IF /\ hist.seek_open
                  /\ event_index < Len(events)
                  /\ in_batch(events[event_index + 1], loc.batch_time)
               THEN [hist EXCEPT !.fresh = @ \cup {event_index + 1}]
               ELSE hist
    /\ UNCHANGED <<event_index, pause_event, start_time, total_paused_time,
                   _pause_ts, _pending_shutdown, now, timer, backend, calls,
                   batch_calls, signals>>
    /\ UNCHANGED <<total_duration, stop_event, faults>>
    /\ UNCHANGED compileVars
    /\ UNCHANGED outputVars

\* _loop_body, line 301: the load of self.event_index
batch_inc_read ==
    /\ pc = "batch_inc_read"
    /\ loc' = [loc EXCEPT !.idx = event_index]
    /\ pc' = "batch_inc_write"
    /\ UNCHANGED <<event_index, pause_event, start_time, total_paused_time,
                   _pause_ts, _pending_shutdown, now, timer, backend, calls,
                   batch_calls, signals>>
    /\ UNCHANGED ctlState
    /\ UNCHANGED compileVars
    /\ UNCHANGED outputVars

\* _loop_body, line 301: the store of self.event_index
batch_inc_write ==
    /\ pc = "batch_inc_write"
    /\ event_index' = loc.idx + 1
    /\ loc' = [loc EXCEPT !.idx = 0]
    /\ pc' = "batch_cond"
    /\ UNCHANGED <<pause_event, start_time, total_paused_time, _pause_ts,
                   _pending_shutdown, now, timer, backend, calls, batch_calls,
                   signals>>
    /\ UNCHANGED ctlState
    /\ UNCHANGED compileVars
    /\ UNCHANGED outputVars


\* The dispatch order of a batch that takes the events as the batch holds
\* them.
batch_order_as_compiled(batch) == batch

\* _execute_batch, lines 322-324: the order in which a batch is dispatched.
batch_order(batch) ==
    SelectSeq(batch, LAMBDA k : events[k].action = "pedal")
    \o SelectSeq(batch, LAMBDA k : events[k].action = "release")
    \o SelectSeq(batch, LAMBDA k : events[k].action = "press")

\* _loop_body, lines 305-306 and _execute_batch, lines 319-324
exec_enter ==
    /\ pc = "exec"
    /\ IF loc.batch = <<>> \/ stop_event
       THEN /\ pc' = "progress"
            /\ loc' = Kept(loc)
            /\ UNCHANGED batch_calls
       ELSE /\ pc' = "exec_call"
            /\ loc' = [Kept(loc) EXCEPT !.xlist = batch_order(loc.batch)]
            /\ batch_calls' = <<>>
    /\ UNCHANGED <<event_index, pause_event, start_time, total_paused_time,
                   _pause_ts, _pending_shutdown, now, timer, backend, calls,
                   signals>>
    /\ UNCHANGED ctlState
    /\ UNCHANGED compileVars
    /\ UNCHANGED outputVars

\* How a backend dispatch call can end: it returns after the key
\* injection; it returns after the key injection failed and the backend
\* swallowed the failure (output.py, lines 75-81, 92-95, 102-105, 110-113:
\* the backend's own state is written before the try); or it raises.
Outcomes == {"ok", "failed", "raised"}

\* A dispatch loop that every failure leaves.
propagates_as_any_failure(outcome) == outcome # "ok"

\* _execute_batch, lines 326-344: the backend calls are made without a
\* handler, so what a call raises leaves _execute_batch and the loop body;
\* what the backend swallowed does not.
propagates(outcome) == outcome = "raised"

\* _execute_batch, lines 326-344: one iteration of the three loops. The
\* backend call returns, with or without a swallowed failure, or raises.
exec_call ==
    /\ pc = "exec_call"
    /\ IF loc.xlist = <<>>
       THEN /\ pc' = "progress"
            /\ loc' = Kept(loc)
            /\ UNCHANGED <<backend, calls, batch_calls, faults>>
       ELSE LET k == Head(loc.xlist)
                e == events[k]
            IN  IF e.action # "pedal" /\ stop_event
                THEN /\ pc' = "progress"
                     /\ loc' = Kept(loc)
                     /\ UNCHANGED <<backend, calls, batch_calls, faults>>
                ELSE IF e.action # "pedal" /\ e.pitch = None
                THEN /\ pc' = "exec_call"
                     /\ loc' = [loc EXCEPT !.xlist = Tail(@)]
                     /\ UNCHANGED <<backend, calls, batch_calls, faults>>
                ELSE \E outcome \in Outcomes :
                        /\ outcome = "failed" => faults.left > 0
                        /\ faults' = IF outcome = "failed"
                                     THEN [left |-> faults.left - 1,
                                           lost |-> faults.lost
                                                    \cup {Len(calls) + 1}]
                                     ELSE faults
                        /\ IF propagates(outcome)
                           THEN /\ pc' = "loop_exit"
                                /\ loc' = [Kept(loc) EXCEPT !.exc = TRUE]
                                /\ UNCHANGED <<backend, calls, batch_calls>>
                           ELSE /\ pc' = "exec_call"
                                /\ loc' = [loc EXCEPT !.xlist = Tail(@)]
                                /\ backend' = backend_after(backend, call_of(e),
                                                            e.pitch)
                                /\ calls' = Append(calls, Call(call_of(e), k))
                                /\ batch_calls' = Append(batch_calls,
                                                         Call(call_of(e), k))
    /\ hist' = IF Len(calls') > Len(calls)
               THEN [hist EXCEPT !.sought = -1] ELSE hist
    /\ UNCHANGED <<event_index, pause_event, start_time, total_paused_time,
                   _pause_ts, _pending_shutdown, now, timer, signals>>
    /\ UNCHANGED <<total_duration, stop_event>>
    /\ UNCHANGED compileVars
    /\ UNCHANGED outputVars

\* _loop_body, lines 308-312
loop_progress ==
    /\ pc = "progress"
    /\ IF now - loc.last_progress >= ProgressIv
       THEN /\ signals' = [signals EXCEPT !.progress = PT]
            /\ loc' = [Kept(loc) EXCEPT !.last_progress = now]
       ELSE /\ loc' = Kept(loc)
            /\ UNCHANGED signals
    /\ pc' = "while"
    /\ UNCHANGED <<event_index, pause_event, start_time, total_paused_time,
                   _pause_ts, _pending_shutdown, now, timer, backend, calls,
                   batch_calls>>
    /\ UNCHANGED ctlState
    /\ UNCHANGED compileVars
    /\ UNCHANGED outputVars

\* A finally block that ends the timer period and leaves the switch
\* interval as _run_loop set it.
run_loop_exit_as_interval_kept ==
    /\ pc = "loop_exit"
    /\ timer' = [timer EXCEPT !.periods = @ - 1]
    /\ pc' = IF loc.exc THEN "except" ELSE "finally"
    /\ UNCHANGED <<event_index, pause_event, start_time, total_paused_time,
                   _pause_ts, _pending_shutdown, now, loc, backend, calls,
                   batch_calls, signals>>
    /\ UNCHANGED ctlState
    /\ UNCHANGED compileVars
    /\ UNCHANGED outputVars

\* _run_loop, lines 257-259
run_loop_exit ==
    /\ pc = "loop_exit"
    /\ timer' = [switchinterval |-> loc.old_switch, periods |-> timer.periods - 1]
    /\ pc' = IF loc.exc THEN "except" ELSE "finally"
    /\ UNCHANGED <<event_index, pause_event, start_time, total_paused_time,
                   _pause_ts, _pending_shutdown, now, loc, backend, calls,
                   batch_calls, signals>>
    /\ UNCHANGED ctlState
    /\ UNCHANGED compileVars
    /\ UNCHANGED outputVars

\* An except clause that emits no status.
play_except_as_silent ==
    /\ pc = "except"
    /\ pc' = "finally"
    /\ UNCHANGED <<event_index, pause_event, start_time, total_paused_time,
                   _pause_ts, _pending_shutdown, now, loc, timer, backend,
                   calls, batch_calls, signals>>
    /\ UNCHANGED ctlState
    /\ UNCHANGED compileVars
    /\ UNCHANGED outputVars

\* play, lines 200-202
play_except ==
    /\ pc = "except"
    /\ signals' = Emit(signals, "Error:")
    /\ pc' = "finally"
    /\ UNCHANGED <<event_index, pause_event, start_time, total_paused_time,
                   _pause_ts, _pending_shutdown, now, loc, timer, backend,
                   calls, batch_calls>>
    /\ UNCHANGED ctlState
    /\ UNCHANGED compileVars
    /\ UNCHANGED outputVars

\* A finally block that does not call the backend.
play_finally_as_no_shutdown ==
    /\ pc = "finally"
    /\ pc' = "emit_finished"
    /\ UNCHANGED <<event_index, pause_event, start_time, total_paused_time,
                   _pause_ts, _pending_shutdown, now, loc, timer, backend,
                   calls, batch_calls, signals>>
    /\ UNCHANGED ctlState
    /\ UNCHANGED compileVars
    /\ UNCHANGED outputVars

\* play, line 204
play_finally ==
    /\ pc = "finally"
    /\ backend' = backend_after(backend, "shutdown", None)
    /\ calls' = Append(calls, Call("shutdown", 0))
    /\ pc' = "emit_finished"
    /\ hist' = [hist EXCEPT !.seek_open = FALSE, !.fresh = {}]
    /\ UNCHANGED <<event_index, pause_event, start_time, total_paused_time,
                   _pause_ts, _pending_shutdown, now, loc, timer, batch_calls,
                   signals>>
    /\ UNCHANGED <<total_duration, stop_event, faults>>
    /\ UNCHANGED compileVars
    /\ UNCHANGED outputVars

\* play, line 205
play_finished ==
    /\ pc = "emit_finished"
    /\ signals' = emit_finished(signals)
    /\ pc' = "done"
    /\ UNCHANGED <<event_index, pause_event, start_time, total_paused_time,
                   _pause_ts, _pending_shutdown, now, loc, timer, backend,
                   calls, batch_calls>>
    /\ UNCHANGED ctlState
    /\ UNCHANGED compileVars
    /\ UNCHANGED outputVars

\* ------------------------------------------------- the numpad encoder
\* RobloxMidiConnect_encoder.ENCODED_KEYS, lines 21-25
ENCODED_KEYS ==
    <<"numpad0", "numpad1", "numpad2", "numpad3", "numpad4", "numpad5",
      "numpad6", "numpad7", "numpad8", "numpad9", "subtract", "add">>

\* RobloxMidiConnect_encoder.PEDAL_SENTINEL, line 27
PEDAL_SENTINEL == 143

\* RobloxMidiConnect_encoder._SCAN_CODES, lines 31-37 (decimal)
_SCAN_CODES ==
    [multiply |-> 55, numpad0 |-> 82, numpad1 |-> 79, numpad2 |-> 80,
     numpad3 |-> 81, numpad4 |-> 75, numpad5 |-> 76, numpad6 |-> 77,
     numpad7 |-> 71, numpad8 |-> 72, numpad9 |-> 73, subtract |-> 74,
     add |-> 78]

\* RobloxMidiConnect_encoder.VK_CODES, lines 92-111 (decimal)
VK_CODES ==
    [Windows |->
        [numpad0 |-> 96, numpad1 |-> 97, numpad2 |-> 98, numpad3 |-> 99,
         numpad4 |-> 100, numpad5 |-> 101, numpad6 |-> 102, numpad7 |-> 103,
         numpad8 |-> 104, numpad9 |-> 105, subtract |-> 109, add |-> 107,
         multiply |-> 106],
     Linux |->
        [numpad0 |-> 65456, numpad1 |-> 65457, numpad2 |-> 65458,
         numpad3 |-> 65459, numpad4 |-> 65460, numpad5 |-> 65461,
         numpad6 |-> 65462, numpad7 |-> 65463, numpad8 |-> 65464,
         numpad9 |-> 65465, subtract |-> 65453, add |-> 65451,
         multiply |-> 65450],
     Darwin |->
        [numpad0 |-> 82, numpad1 |-> 83, numpad2 |-> 84, numpad3 |-> 85,
         numpad4 |-> 86, numpad5 |-> 87, numpad6 |-> 88, numpad7 |-> 89,
         numpad8 |-> 91, numpad9 |-> 92, subtract |-> 78, add |-> 69,
         multiply |-> 67]]

\* _ENCODED_SCAN, line 116: the scan codes in the order of ENCODED_KEYS
\* (index from 0).
_ENCODED_SCAN(k) == _SCAN_CODES[ENCODED_KEYS[k + 1]]

\* _MULTIPLY_SCAN, line 117
_MULTIPLY_SCAN == _SCAN_CODES["multiply"]

\* A key index that wraps around instead of saturating.
clamp_as_modulo(v) == v % 12

\* encode_and_send_message, lines 185-188 and 197: max(0, min(11, v))
clamp(v) == IF v < 0 THEN 0 ELSE IF v > 11 THEN 11 ELSE v

\* Note components that carry no velocity.
_encode_note_components_as_unvoiced(note, velocity, is_note_off) ==
    <<note \div 12, note % 12, 0, 0>>

\* _encode_note_components, lines 200-208
_encode_note_components(note, velocity, is_note_off) ==
    LET octave == note \div 12
        note_in_octave == note % 12
        v == IF velocity < 0 THEN 0 ELSE IF velocity > 127 THEN 127
             ELSE velocity
    IN  IF is_note_off
        THEN <<octave, note_in_octave, 0, 0>>
        ELSE <<octave, note_in_octave, v \div 12, v % 12>>

\* Pedal components whose marker is the largest pitch.
pedal_components_as_top_pitch(value) ==
    LET v == IF value < 0 THEN 0 ELSE IF value > 127 THEN 127 ELSE value
    IN  <<127 \div 12, 127 % 12, v \div 12, v % 12>>

\* send_pedal, lines 219-223: the four values of a pedal frame
pedal_components(value) ==
    LET v == IF value < 0 THEN 0 ELSE IF value > 127 THEN 127 ELSE value
    IN  <<PEDAL_SENTINEL \div 12, PEDAL_SENTINEL % 12, v \div 12, v % 12>>

\* _tap_key, lines 139-154: the key handed to pydirectinput (the scan code
\* its KEYBOARD_MAPPING got at line 67) or to pynput (the key code built
\* from the platform's VK code at line 113).
_tap_key(r, name) ==
    IF r.pydirectinput
    THEN [api |-> "pydirectinput", code |-> _SCAN_CODES[name]]
    ELSE [api |-> "pynput", code |-> VK_CODES[r.platform][name]]

\* The encoder module after import, before a message is sent. The fast
\* paths exist on Windows only (lines 62-86): pydirectinput is set up
\* first, the batched frame after it, and an exception leaves what was not
\* reached off.
EncoderLoads ==
    {r \in [pc : {"idle"}, platform : {"Windows", "Linux", "Darwin"},
            pydirectinput : BOOLEAN, batched : BOOLEAN,
            numlock_ensured : {FALSE}, call : {"none"}, args : {<<>>},
            taps : {0}, path : {"none"}, keys : {<<>>}, ok : {TRUE}] :
        /\ r.batched => r.pydirectinput
        /\ r.pydirectinput => r.platform = "Windows"}

\* ensure_numlock_on, lines 124-136: the number of NumLock taps of a call;
\* numlock_off is what GetKeyState reports.
ensure_numlock_on(r, numlock_off) ==
    IF ~r.numlock_ensured /\ r.platform = "Windows" /\ numlock_off
    THEN 1 ELSE 0

\* encode_and_send_message, lines 176-197: the module state after the
\* call. sent says whether SendInput took the ten events of the batched
\* frame.
encode_and_send_message(r, call, a, b, c, d, inter_key_delay, numlock_off, sent) ==
    LET batched == r.batched /\ inter_key_delay <= 0
    IN  [r EXCEPT
           !.pc = "sent",
           !.call = call,
           !.args = <<a, b, c, d>>,
           !.numlock_ensured = TRUE,
           !.taps = ensure_numlock_on(r, numlock_off),
           !.path = IF batched THEN "batched" ELSE "per_key",
           !.keys = IF batched
                    THEN [i \in 1..5 |->
                            [api |-> "SendInput",
                             code |-> IF i = 1 THEN _MULTIPLY_SCAN
                                      ELSE _ENCODED_SCAN(
                                             clamp(<<a, b, c, d>>[i - 1]))]]
                    ELSE <<_tap_key(r, "multiply")>>
                         \o [i \in 1..4 |->
                               _tap_key(r, ENCODED_KEYS[
                                   clamp(<<a, b, c, d>>[i]) + 1])],
           !.ok = (batched => sent),
           !.batched = IF batched /\ ~sent THEN FALSE ELSE @]

\* What the environment can answer during a call: the NumLock state is
\* read only by the first call on Windows, SendInput is called only on the
\* batched path.
NumlockAnswers(r) ==
    IF ~r.numlock_ensured /\ r.platform = "Windows" THEN BOOLEAN ELSE {FALSE}

SendInputAnswers(r, inter_key_delay) ==
    IF r.batched /\ inter_key_delay <= 0 THEN BOOLEAN ELSE {TRUE}

\* The values of a raw frame: the twelve digits and those next to them.
RawValues == (0 - DigitSlack)..(11 + DigitSlack)

\* send_note_message, lines 211-214
send_note_message ==
    /\ rmc.pc = "idle"
    /\ \E note \in 0..MaxPitch, is_note_off \in BOOLEAN :
       \E velocity \in IF is_note_off THEN {0} ELSE 0..MaxVelocity :
       \E numlock_off \in NumlockAnswers(rmc), sent \in SendInputAnswers(rmc, 0) :
          LET m == _encode_note_components(note, velocity, is_note_off)
          IN  rmc' = encode_and_send_message(
                         rmc, <<IF is_note_off THEN "note_off" ELSE "note_on",
                                note, velocity>>,
                         m[1], m[2], m[3], m[4], 0, numlock_off, sent)
    /\ UNCHANGED <<compileVars, playerVars, dev>>

\* send_pedal, lines 217-224
send_pedal ==
    /\ rmc.pc = "idle"
    /\ \E value \in {0, 127} :
       \E numlock_off \in NumlockAnswers(rmc), sent \in SendInputAnswers(rmc, 0) :
          LET m == pedal_components(value)
          IN  rmc' = encode_and_send_message(
                         rmc, <<"pedal", value, 0>>,
                         m[1], m[2], m[3], m[4], 0, numlock_off, sent)
    /\ UNCHANGED <<compileVars, playerVars, dev>>

\* encode_and_send_message called with four integers of its caller's
\* choice, with and without a delay between the keys.
send_raw ==
    /\ rmc.pc = "idle"
    /\ \E a \in RawValues, b \in RawValues, c \in RawValues, d \in RawValues :
       \E inter_key_delay \in {0, 1} :
       \E numlock_off \in NumlockAnswers(rmc),
          sent \in SendInputAnswers(rmc, inter_key_delay) :
          rmc' = encode_and_send_message(rmc, <<"raw", inter_key_delay, 0>>,
                                         a, b, c, d, inter_key_delay,
                                         numlock_off, sent)
    /\ UNCHANGED <<compileVars, playerVars, dev>>

\* The call has returned; the module keeps its flags for the next message.
send_return ==
    /\ rmc.pc = "sent"
    /\ rmc' = [rmc EXCEPT !.pc = "idle", !.call = "none", !.args = <<>>,
                          !.taps = 0, !.path = "none", !.keys = <<>>,
                          !.ok = TRUE]
    /\ UNCHANGED <<compileVars, playerVars, dev>>

\* ------------------------------------------------ the concrete backends
\* The pitches sent to a backend on its own.
BackendPitches == {60, 61, 62}

\* KeyMapper.get_key_data: a white key is a letter, the black key above it
\* is the same letter with shift.
get_key_data(pitch) ==
    CASE pitch = 60 -> [key |-> "t", modifiers |-> <<>>]
      [] pitch = 61 -> [key |-> "t", modifiers |-> <<"shift">>]
      [] OTHER -> [key |-> "y", modifiers |-> <<>>]

\* KeyState(key_char), KeyState.press and KeyState.release
KeyState(key_char) ==
    [key |-> key_char, is_active |-> FALSE, is_sustained |-> FALSE,
     is_physically_down |-> FALSE]

KeyState_press(st) ==
    [st EXCEPT !.is_active = TRUE, !.is_physically_down = TRUE]

KeyState_release(st) ==
    [st EXCEPT !.is_active = FALSE, !.is_sustained = FALSE,
               !.is_physically_down = FALSE]

\* A device action: a key event of pynput (KeyboardBackend) or a message
\* handed to the encoder (NumpadBackend).
Act(act, key) == [act |-> act, key |-> key]

\* NumpadBackend.__init__, lines 147-150, and KeyboardBackend.__init__,
\* lines 47-51; last is the method called last and out what it emitted.
NumpadNew ==
    [kind |-> "numpad", active_notes |-> {}, states |-> <<>>,
     pedal_down |-> FALSE, last |-> "none", out |-> <<>>]

KeyboardNew ==
    [kind |-> "keyboard", active_notes |-> {}, states |-> <<>>,
     pedal_down |-> FALSE, last |-> "none", out |-> <<>>]

\* The position of key_char in KeyboardBackend._states, 0 when it has no
\* state yet.
state_index(states, key_char) ==
    IF \E i \in 1..Len(states) : states[i].key = key_char
    THEN CHOOSE i \in 1..Len(states) : states[i].key = key_char
    ELSE 0

\* KeyboardBackend._state_for, lines 53-56: _states with a state for
\* key_char.
_state_for(states, key_char) ==
    IF state_index(states, key_char) = 0
    THEN Append(states, KeyState(key_char))
    ELSE states

\* KeyboardBackend.note_on, lines 60-81
kb_note_on(d, pitch) ==
    LET data == get_key_data(pitch)
        sts == _state_for(d.states, data.key)
        i == state_index(sts, data.key)
        state == sts[i]
        was_down == state.is_physically_down
        is_sustained == state.is_sustained /\ ~state.is_active
        mods == data.modifiers
        inner == IF is_sustained
                 THEN <<Act("release", data.key), Act("press", data.key)>>
                 ELSE IF ~was_down THEN <<Act("press", data.key)>>
                 ELSE <<>>
    IN  [d EXCEPT
           !.states = [sts EXCEPT ![i] = KeyState_press(state)],
           !.last = "note_on",
           !.out = [k \in 1..Len(mods) |-> Act("press", mods[k])]
                   \o inner
                   \o [k \in 1..Len(mods) |->
                         Act("release", mods[Len(mods) + 1 - k])]]

\* KeyboardBackend.note_off, lines 83-95
kb_note_off(d, pitch) ==
    LET data == get_key_data(pitch)
        i == state_index(d.states, data.key)
    IN  IF i = 0
        THEN [d EXCEPT !.last = "note_off", !.out = <<>>]
        ELSE [d EXCEPT
                !.states[i] = KeyState_release(@),
                !.last = "note_off",
                !.out = <<Act("release", data.key)>>]

\* KeyboardBackend.pedal_on and pedal_off, lines 99-113
kb_pedal(d, down) ==
    IF d.pedal_down # down
    THEN [d EXCEPT !.pedal_down = down,
                   !.last = IF down THEN "pedal_on" ELSE "pedal_off",
                   !.out = <<Act(IF down THEN "press" ELSE "release",
                                 "space")>>]
    ELSE [d EXCEPT !.last = IF down THEN "pedal_on" ELSE "pedal_off",
                   !.out = <<>>]

\* A shutdown that releases the keys on the device and leaves their
\* states as they are.
kb_shutdown_as_states_kept(d) ==
    LET held == SelectSeq(d.states,
                          LAMBDA st : st.is_active \/ st.is_sustained)
    IN  [d EXCEPT
           !.pedal_down = FALSE,
           !.last = "shutdown",
           !.out = [k \in 1..Len(held) |-> Act("release", held[k].key)]
                   \o (IF d.pedal_down THEN <<Act("release", "space")>>
                       ELSE <<>>)
                   \o <<Act("release", "shift"), Act("release", "ctrl"),
                        Act("release", "alt")>>]

\* KeyboardBackend.shutdown, lines 117-137
kb_shutdown(d) ==
    LET held == SelectSeq(d.states,
                          LAMBDA st : st.is_active \/ st.is_sustained)
    IN  [d EXCEPT
           !.states = [i \in 1..Len(d.states) |->
                         IF d.states[i].is_active \/ d.states[i].is_sustained
                         THEN KeyState_release(d.states[i])
                         ELSE d.states[i]],
           !.pedal_down = FALSE,
           !.last = "shutdown",
           !.out = [k \in 1..Len(held) |-> Act("release", held[k].key)]
                   \o (IF d.pedal_down THEN <<Act("release", "space")>>
                       ELSE <<>>)
                   \o <<Act("release", "shift"), Act("release", "ctrl"),
                        Act("release", "alt")>>]

\* The orders in which a set of pitches can be listed.
Listings(S) ==
    {sq \in [1..Cardinality(S) -> S] :
        \A i, j \in 1..Cardinality(S) : i # j => sq[i] # sq[j]}

\* NumpadBackend.note_on / note_off / pedal_on / pedal_off / shutdown,
\* lines 158-192: the messages the call hands to the encoder; listing is
\* the order in which list(self._active_notes) yields the notes.
numpad_out(d, op, pitch, listing) ==
    CASE op = "note_on" -> <<Act("note_on", pitch)>>
      [] op = "note_off" -> <<Act("note_off", pitch)>>
      [] op = "pedal_on" ->
            IF d.pedal_down THEN <<>> ELSE <<Act("pedal", 127)>>
      [] op = "pedal_off" ->
            IF d.pedal_down THEN <<Act("pedal", 0)>> ELSE <<>>
      [] OTHER ->
            [k \in 1..Len(listing) |-> Act("note_off", listing[k])]
            \o (IF d.pedal_down THEN <<Act("pedal", 0)>> ELSE <<>>)

\* One call on the NumpadBackend.
numpad_call(d, op, pitch, listing) ==
    LET b == backend_after([active_notes |-> d.active_notes,
                            pedal_down |-> d.pedal_down], op, pitch)
    IN  [d EXCEPT !.active_notes = b.active_notes,
                  !.pedal_down = b.pedal_down,
                  !.last = op,
                  !.out = numpad_out(d, op, pitch, listing)]

\* One call on the KeyboardBackend.
kb_call(d, op, pitch) ==
    CASE op = "note_on" -> kb_note_on(d, pitch)
      [] op = "note_off" -> kb_note_off(d, pitch)
      [] op = "pedal_on" -> kb_pedal(d, TRUE)
      [] op = "pedal_off" -> kb_pedal(d, FALSE)
      [] OTHER -> kb_shutdown(d)

\* OutputBackend.note_on, note_off, pedal_on, pedal_off and shutdown,
\* called on the backend that create_backend built.
BackendCall(op, pitch) ==
    /\ dev.kind # "none"
    /\ IF dev.kind = "numpad"
       THEN \E listing \in IF op = "shutdown" THEN Listings(dev.active_notes)
                           ELSE {<<>>} :
               dev' = numpad_call(dev, op, pitch, listing)
       ELSE dev' = kb_call(dev, op, pitch)
    /\ UNCHANGED <<compileVars, playerVars, rmc>>

backend_note_on == \E pitch \in BackendPitches : BackendCall("note_on", pitch)
backend_note_off == \E pitch \in BackendPitches : BackendCall("note_off", pitch)
backend_pedal_on == BackendCall("pedal_on", None)
backend_pedal_off == BackendCall("pedal_off", None)
backend_shutdown == BackendCall("shutdown", None)

\* ----------------------------------------------------- the play sessions
Note(pitch, start, dur) ==
    [pitch |-> pitch, velocity |-> 64, start_time |-> start,
     duration |-> dur, hand |-> "unknown"]

\* The score played: one pedalled note, shorter than the batch tolerance
\* is wide, that starts after time 0; the pedal is lifted later.
Scores ==
    {[notes |-> <<Note(60, 1, 1)>>,
      pedal_events |-> <<KeyEvent(1, 1, "pedal", "down", None, 0),
                         KeyEvent(4, 1, "pedal", "up", None, 0)>>]}

\* A Player built on the compiled score, before play() is called.
Session ==
    /\ \E sc \in Scores :
          /\ notes = sc.notes
          /\ pedal_events = sc.pedal_events
    /\ sections = <<>>
    /\ config \in [humanize : {FALSE}, enable_mistakes : {FALSE},
                   countdown : BOOLEAN]
    /\ jitter = NoJitter
    /\ work = notes
    /\ heap = <<>>
    /\ played_in_section = {}
    /\ cur_sec = -1
    /\ ni = Len(notes) + 1
    /\ cpc = "done"
    /\ events = compile(notes, sections, config, pedal_events, jitter)
    /\ PlayerInit

\* The sessions in which every key injection succeeds.
Init ==
    /\ Session
    /\ faults = NoFaults
    /\ rmc = EncoderUnused
    /\ dev = NoDevice

\* The sessions in which up to MaxFaults key injections fail inside the
\* backend.
InitFault ==
    /\ Session
    /\ faults = [left |-> MaxFaults, lost |-> {}]
    /\ rmc = EncoderUnused
    /\ dev = NoDevice

Worker ==
    \/ play_enter
    \/ countdown_iter
    \/ play_check
    \/ play_reset_paused
    \/ play_reset_index
    \/ run_loop_enter
    \/ loop_while
    \/ loop_pending_read
    \/ loop_pending_clear
    \/ loop_pending_call
    \/ loop_pause_chk
    \/ loop_now
    \/ loop_pt
    \/ loop_end_chk
    \/ autopause_ts
    \/ autopause_set
    \/ autopause_pending
    \/ loop_nxt
    \/ loop_sleep
    \/ loop_spin
    \/ batch_cond
    \/ batch_get
    \/ batch_inc_read
    \/ batch_inc_write
    \/ exec_enter
    \/ exec_call
    \/ loop_progress
    \/ run_loop_exit
    \/ play_except
    \/ play_finally
    \/ play_finished

\* The steps of _loop_body and of the _execute_batch it calls.
LoopBody ==
    \/ loop_while
    \/ loop_pending_read
    \/ loop_pending_clear
    \/ loop_pending_call
    \/ loop_pause_chk
    \/ loop_now
    \/ loop_pt
    \/ loop_end_chk
    \/ autopause_ts
    \/ autopause_set
    \/ autopause_pending
    \/ loop_nxt
    \/ loop_sleep
    \/ loop_spin
    \/ batch_cond
    \/ batch_get
    \/ batch_inc_read
    \/ batch_inc_write
    \/ exec_enter
    \/ exec_call
    \/ loop_progress

\* The steps of the control operations stop, toggle_pause and seek.
Control ==
    \/ Stop
    \/ TogglePause
    \/ \E t \in SeekTargets : Seek(t)

Next ==
    \/ Worker
    \/ Stop
    \/ TogglePause
    \/ \E t \in SeekTargets : Seek(t)

Spec == Init /\ [][Next]_vars

\* The control calls of a session with failures.
FaultCtl ==
    /\ hist.ctl < MaxFaultCtl
    /\ (Stop \/ TogglePause \/ \E t \in SeekTargets : Seek(t))

NextFault ==
    \/ Worker
    \/ FaultCtl

SpecFault == InitFault /\ [][NextFault]_vars

\* The encoder on its own: messages are sent one after the other to a
\* freshly imported module; no Player runs.
InitEncoder ==
    /\ Session
    /\ ~config.countdown
    /\ faults = NoFaults
    /\ rmc \in EncoderLoads
    /\ dev = NoDevice

NextEncoder ==
    \/ send_note_message
    \/ send_pedal
    \/ send_raw
    \/ send_return

SpecEncoder == InitEncoder /\ [][NextEncoder]_vars

\* A backend on its own: create_backend, lines 199-204, builds one of the
\* two, and its methods are called in any order.
InitBackend ==
    /\ Session
    /\ ~config.countdown
    /\ faults = NoFaults
    /\ rmc = EncoderUnused
    /\ dev \in {NumpadNew, KeyboardNew}

NextBackend ==
    \/ backend_note_on
    \/ backend_note_off
    \/ backend_pedal_on
    \/ backend_pedal_off
    \/ backend_shutdown

SpecBackend == InitBackend /\ [][NextBackend]_vars

\* The end-to-end scenario: two notes of 0.40 s at 0.0, a third of 0.30 s
\* at 0.50, the pedal pressed at 0.0 and never lifted.
ScenarioNotes == <<Note(60, 0, 800), Note(64, 0, 800), Note(67, 1000, 600)>>

ScenarioPedals ==
    {<<KeyEvent(0, p, "pedal", "down", None, 0)>> : p \in PedalPriorities}

\* A Player built on the compiled scenario; it is played to its end or
\* stopped on the way.
InitScenario ==
    /\ notes = ScenarioNotes
    /\ pedal_events \in ScenarioPedals
    /\ sections = <<>>
    /\ config \in [humanize : {FALSE}, enable_mistakes : {FALSE},
                   countdown : BOOLEAN]
    /\ jitter = NoJitter
    /\ work = notes
    /\ heap = <<>>
    /\ played_in_section = {}
    /\ cur_sec = -1
    /\ ni = Len(notes) + 1
    /\ cpc = "done"
    /\ events = compile(notes, sections, config, pedal_events, jitter)
    /\ PlayerInit
    /\ faults = NoFaults
    /\ rmc = EncoderUnused
    /\ dev = NoDevice

NextScenario ==
    \/ Worker
    \/ Stop

SpecScenario == InitScenario /\ [][NextScenario]_vars

\* The sessions whose control calls come during the countdown of play(),
\* lines 243-248; later the caller only resumes a paused player.
InitCountdown == Init /\ config.countdown

CountdownCtl ==
    /\ pc = "cd"
    /\ (Stop \/ TogglePause \/ \E t \in SeekTargets : Seek(t))

ResumeLater ==
    /\ Started
    /\ pause_event
    /\ TogglePause

NextCountdown ==
    \/ Worker
    \/ CountdownCtl
    \/ ResumeLater

SpecCountdown == InitCountdown /\ [][NextCountdown]_vars

\* The sessions checked for termination: up to MaxStopCtl control calls,
\* and a worker thread that the scheduler keeps running: play() runs on a
\* thread of its own (line 188), and each of its waits ends by itself
\* (time.sleep at lines 248, 271, 285, 287 and _precise_sleep), also the
\* wait for a deadline that lies after the last clock reading looked at.
StopCtl ==
    /\ hist.ctl < MaxStopCtl
    /\ (Stop \/ TogglePause \/ \E t \in SeekTargets : Seek(t))

NextStop ==
    \/ Worker
    \/ loop_spin_late
    \/ StopCtl

SpecStop == Init /\ [][NextStop]_vars /\ WF_vars(Worker \/ loop_spin_late)


\* The scores played batch by batch. In the first, the event after the
\* first batch is within the tolerance of the batch's last event and
\* outside that of its first; the second has two batches of two events
\* one tick apart.
BatchScores ==
    {<<Note(60, 1, 1), Note(61, 2, 1)>>,
     <<Note(60, 1, 2), Note(61, 2, 2)>>}

\* A Player built on one of these scores, compiled without pedal.
InitBatch ==
    /\ notes \in BatchScores
    /\ pedal_events = <<>>
    /\ sections = <<>>
    /\ config \in [humanize : {FALSE}, enable_mistakes : {FALSE},
                   countdown : BOOLEAN]
    /\ jitter = NoJitter
    /\ work = notes
    /\ heap = <<>>
    /\ played_in_section = {}
    /\ cur_sec = -1
    /\ ni = Len(notes) + 1
    /\ cpc = "done"
    /\ events = compile(notes, sections, config, pedal_events, jitter)
    /\ PlayerInit
    /\ faults = NoFaults
    /\ rmc = EncoderUnused
    /\ dev = NoDevice

\* The control calls of these sessions: stop and toggle_pause, no seek.
BatchCtl ==
    /\ hist.ctl < MaxBatchCtl
    /\ (Stop \/ TogglePause)

NextBatch ==
    \/ Worker
    \/ BatchCtl

SpecBatch == InitBatch /\ [][NextBatch]_vars

\* ============================================================ the claims
\* The action band of the playback engine: pedal, then release, then press.
Band(action) ==
    CASE action = "pedal" -> 0
      [] action = "release" -> 1
      [] OTHER -> 2

\* The pairs of positions i < j of a sequence.
Pairs(sq) == {p \in (1..Len(sq)) \X (1..Len(sq)) : p[1] < p[2]}

\* C1: the list compile returns is sorted by non-decreasing event time.
C1_SortedByTime ==
    cpc = "done" =>
        \A p \in Pairs(events) : events[p[1]].time <= events[p[2]].time

\* compile has returned a list that holds a pedal event and note events of
\* two different times, built from humanized notes.
C1_Witness ==
    /\ cpc = "done"
    /\ config.humanize
    /\ Len(events) >= 5
    /\ \E i \in 1..Len(events) : events[i].action = "pedal"
    /\ \E p \in Pairs(events) : events[p[1]].time < events[p[2]].time

\* C2 as stated: in the list compile returns, events of the same time stand
\* in band order, pedal before release before press.
C2_TiesInBandOrder ==
    cpc = "done" =>
        \A p \in Pairs(events) :
            events[p[1]].time = events[p[2]].time =>
                Band(events[p[1]].action) <= Band(events[p[2]].action)

\* C2: in the list compile returns, events of the same time stand in the
\* order of the priority they carry, so a press (priority 2) stands before
\* a release (priority 4) of the same time.
C2_TiesInPriorityOrder ==
    cpc = "done" =>
        \A p \in Pairs(events) :
            events[p[1]].time = events[p[2]].time =>
                /\ events[p[1]].priority <= events[p[2]].priority
                /\ ~(events[p[1]].action = "release"
                     /\ events[p[2]].action = "press")

\* compile has returned a list where a press and a release share a time
\* and the press stands first.
C2_Witness ==
    /\ cpc = "done"
    /\ \E p \in Pairs(events) :
          /\ events[p[1]].time = events[p[2]].time
          /\ events[p[1]].action = "press"
          /\ events[p[2]].action = "release"

\* The band of a backend call.
CallBand(c) ==
    CASE c.op \in {"pedal_on", "pedal_off"} -> 0
      [] c.op = "note_off" -> 1
      [] OTHER -> 2

\* C3: the backend calls of one batch are made in band order: the pedal
\* calls, then the note_off calls, then the note_on calls.
C3_BatchBandOrder ==
    \A p \in Pairs(batch_calls) :
        CallBand(batch_calls[p[1]]) <= CallBand(batch_calls[p[2]])

\* A batch that held the press of a pitch before its release has been
\* dispatched as pedal_on, note_off, note_on.
C3_Witness ==
    /\ Len(batch_calls) = 3
    /\ batch_calls[1].op = "pedal_on"
    /\ batch_calls[2].op = "note_off"
    /\ batch_calls[3].op = "note_on"
    /\ batch_calls[3].ev < batch_calls[2].ev
    /\ events[batch_calls[2].ev].pitch = events[batch_calls[3].ev].pitch

\* The calls of the log that dispatch an event.
Dispatches == {i \in 1..Len(calls) : calls[i].op # "shutdown"}

\* C4 as stated: with no seek, an event of a smaller time is dispatched
\* before an event of a larger time, however close the two times are.
C4_StrictlyChronological ==
    hist.seeks = 0 =>
        \A i, j \in Dispatches :
            events[calls[i].ev].time < events[calls[j].ev].time => i < j

\* C4: with no seek, an event is dispatched before every event whose time
\* is larger by more than the batch tolerance.
C4_ChronologicalBeyondTolerance ==
    hist.seeks = 0 =>
        \A i, j \in Dispatches :
            events[calls[i].ev].time + BatchTol < events[calls[j].ev].time
                => i < j

\* With no seek, the release of a note has been dispatched before its
\* earlier press, and an event later than the tolerance after both.
C4_Witness ==
    /\ hist.seeks = 0
    /\ \E i, j, k \in Dispatches :
          /\ i < j /\ j < k
          /\ events[calls[j].ev].time < events[calls[i].ev].time
          /\ events[calls[i].ev].time + BatchTol < events[calls[k].ev].time

\* The player's own state: every variable but the record of control calls.
playerState ==
    <<total_duration, event_index, stop_event, pause_event, start_time,
      total_paused_time, _pause_ts, _pending_shutdown, now, pc, loc, timer,
      backend, calls, batch_calls, signals>>

\* C5: a resume by toggle_pause, of a pause made by toggle_pause after
\* play() captured its clock reference, with no seek since the pause and
\* the cursor not past the end, leaves the playback time at the value it
\* had when the pause was made.
C5_PauseResumeContinuity ==
    [][(TogglePause /\ pause_event /\ hist.pause_clean
            /\ event_index < Len(events))
        => PT' = hist.pause_pt]_vars

\* The number of compiled events whose time is strictly less than t.
CountBefore(t) == Cardinality({k \in 1..Len(events) : events[k].time < t})

C7_SeekSetsPlaybackTime ==
    [][/\ \A t \in SeekTargets : (Seek(t) /\ ~pause_event) => PT' = t
       /\ (TogglePause /\ pause_event /\ hist.seek_t >= 0
              /\ event_index < Len(events))
          => PT' = hist.seek_t]_vars

\* C8 as stated: stop() in any state leaves the stop flag set and the pause
\* flag clear.
C8_StopAlwaysClearsPause ==
    [][Stop => (stop_event' /\ ~pause_event')]_vars

\* C8: stop() with the stop flag clear sets it, clears the pause flag and
\* emits one status notification; stop() with the stop flag set changes no
\* state and emits nothing, so a pause flag set after the first stop stays
\* set; and no step clears the stop flag.
C8_StopIdempotentTerminal ==
    [][/\ (Stop /\ ~stop_event) =>
            /\ stop_event' /\ ~pause_event'
            /\ signals' = Emit(signals, "Stopping playback...")
       /\ (Stop /\ stop_event) => UNCHANGED playerState
       /\ stop_event => stop_event']_vars

\* stop() has been called twice, with a toggle_pause between the two that
\* set the pause flag again.
C8_Witness ==
    /\ hist.stops = 2
    /\ signals.status["Stopping playback..."] = 1
    /\ signals.status["Paused."] = 1
    /\ stop_event
    /\ pause_event

\* C9: playback_finished has been emitted once when play() has returned,
\* and not before.
C9_FinishedOnce ==
    signals.finished = IF pc = "done" THEN 1 ELSE 0

\* play() has returned after an exception ended the loop, and has emitted
\* playback_finished.
C9_Witness ==
    /\ pc = "done"
    /\ signals.status["Error:"] = 1
    /\ signals.finished = 1

\* The number of backend.shutdown() calls made so far.
NumShutdown == Cardinality({i \in 1..Len(calls) : calls[i].op = "shutdown"})

\* The shutdown requests made so far: pauses, seeks (the one a resume past
\* the end makes included) and auto-pauses.
NumRequests ==
    signals.status["Paused."] + hist.seeks + signals.auto_paused

\* C10 as stated: over a whole play() session backend.shutdown() is called
\* exactly once.
C10_ShutdownExactlyOnce ==
    pc = "done" => NumShutdown = 1

\* C10: when play() has returned, the last backend call is the shutdown of
\* its finally block, and the loop has added at most one shutdown for each
\* pause, seek or auto-pause: exactly one call if there was no such
\* request.
C10_ShutdownLastAndBounded ==
    pc \in {"emit_finished", "done"} =>
        /\ calls # <<>>
        /\ calls[Len(calls)].op = "shutdown"
        /\ NumShutdown >= 1
        /\ NumShutdown <= 1 + NumRequests

\* play() has returned after a pause and a seek that each had the loop call
\* shutdown, before the call of the finally block.
C10_Witness ==
    /\ pc = "done"
    /\ NumShutdown = 3
    /\ NumRequests = 2

\* C11: once play() has run its finally block, the last backend call is
\* shutdown, no note is active on the backend and the pedal is up; and
\* after play() has returned no step makes a backend call.
C11_SessionEndsShutDown ==
    /\ [](pc \in {"emit_finished", "done"} =>
            /\ calls # <<>>
            /\ calls[Len(calls)].op = "shutdown"
            /\ backend.active_notes = {}
            /\ ~backend.pedal_down)
    /\ [][pc = "done" => UNCHANGED <<backend, calls, batch_calls>>]_vars

\* play() has returned from a session that pressed a note and the pedal
\* and never released them by an event: the shutdown of the finally block
\* did, and a control call came after the return.
C11_Witness ==
    /\ pc = "done"
    /\ \E i \in 1..Len(calls) :
          /\ calls[i].op = "note_on"
          /\ \A j \in (i + 1)..Len(calls) : calls[j].op = "shutdown"
    /\ \E i \in 1..Len(calls) :
          /\ calls[i].op = "pedal_on"
          /\ \A j \in (i + 1)..Len(calls) : calls[j].op # "pedal_off"
    /\ Len(calls) = 4
    /\ backend.active_notes = {}
    /\ ~backend.pedal_down

\* The steps that dispatch an event: a backend call other than shutdown.
Dispatched ==
    /\ calls' # calls
    /\ calls'[Len(calls')].op # "shutdown"

\* C12: between a seek and the first event dispatched from the new cursor
\* position the worker calls backend.shutdown(): no event that the loop
\* took from the cursor after a seek is dispatched before the shutdown
\* that the seek asked for.
C12_ShutdownBeforeDispatchAfterSeek ==
    [][Dispatched => calls'[Len(calls')].ev \notin hist.fresh]_vars

\* The positions of play() after an exception left the loop body.
AfterRaise == {"loop_exit", "except", "finally", "emit_finished", "done"}

\* C13: when a step of the loop body has raised, the loop is left and no
\* further event is dispatched; the status "Error:" has been emitted
\* exactly once when the except clause is over and never otherwise; and
\* play() goes on to its return: until then its next step is enabled.
C13_ExceptionEndsLoopOnce ==
    /\ [](loc.exc => pc \in AfterRaise)
    /\ [](signals.status["Error:"] =
            IF loc.exc /\ pc \in {"finally", "emit_finished", "done"}
            THEN 1 ELSE 0)
    /\ [](loc.exc /\ pc # "done" =>
            ENABLED (run_loop_exit \/ play_except \/ play_finally
                     \/ play_finished))
    /\ [][loc.exc => ~Dispatched]_vars

\* play() has returned after a dispatch call raised in the middle of a
\* batch: one event of the batch was dispatched, the next call raised, the
\* error was reported once and the finally block shut the backend down.
C13_Witness ==
    /\ pc = "done"
    /\ loc.exc
    /\ signals.status["Error:"] = 1
    /\ Len(calls) = 2
    /\ calls[1].op = "pedal_on"
    /\ calls[2].op = "shutdown"
    /\ hist.ctl = 0

\* A dispatch call fails in this step: the backend swallows a failed key
\* injection, or the call raises.
SwallowedStep == faults'.lost # faults.lost
RaisedStep == pc = "exec_call" /\ ~loc.exc /\ loc'.exc

\* The loop goes on after the step: the rest of the batch is next, the
\* failed event is not kept for a retry and the cursor is where it was.
GoesOn ==
    /\ pc' = "exec_call"
    /\ ~loc'.exc
    /\ loc'.xlist = Tail(loc.xlist)
    /\ event_index' = event_index

\* The events dispatched so far, as positions of the event list.
DispatchedEvents ==
    {calls[i].ev : i \in {j \in 1..Len(calls) : calls[j].op # "shutdown"}}

OutsideRunLoop ==
    {"idle", "cd", "play_check", "reset_paused", "reset_index", "run_loop",
     "except", "finally", "emit_finished", "done"}

\* C15: the finer timer resolution is held (once) exactly while the worker
\* is between _run_loop's acquisition and its finally block, with the
\* switch interval lowered and its previous value saved; outside, and so
\* after play() returned on any path, no timer period is held and the
\* switch interval has its previous value. A period is released only by
\* the finally block of _run_loop, one at a time.
C15_TimerReleasedOnEveryExit ==
    /\ [](IF pc \in OutsideRunLoop
          THEN timer = [switchinterval |-> DefaultSwitch, periods |-> 0]
          ELSE /\ timer = [switchinterval |-> FastSwitch, periods |-> 1]
               /\ loc.old_switch = DefaultSwitch)
    /\ [][timer'.periods < timer.periods =>
            pc = "loop_exit" /\ timer'.periods = timer.periods - 1]_vars

\* The loop body was left by an exception with no stop requested, and
\* _run_loop's finally block has released the timer period it held and
\* restored the switch interval it saved.
C15_Witness ==
    /\ pc = "except"
    /\ loc.exc
    /\ ~stop_event
    /\ loc.old_switch = DefaultSwitch
    /\ timer = [switchinterval |-> DefaultSwitch, periods |-> 0]

\* C16 as stated: no step of the worker loop writes the stop flag, the
\* pause flag, the pending-shutdown flag, start_time, the accumulated
\* paused time or the event cursor.
C16_LoopWritesNoSharedScalar ==
    [][LoopBody => UNCHANGED <<stop_event, pause_event, _pending_shutdown,
                               start_time, total_paused_time,
                               event_index>>]_vars

\* C16: the stop flag, start_time and the accumulated paused time are
\* written only by stop, toggle_pause, seek and the opening statements of
\* play(), never by a step of the worker loop.
C16_LoopWritesNoClockOrStop ==
    /\ [][LoopBody => UNCHANGED <<stop_event, start_time,
                                  total_paused_time>>]_vars
    /\ [][<<stop_event, start_time, total_paused_time>>' #
            <<stop_event, start_time, total_paused_time>>
          => Control \/ play_check \/ play_reset_paused]_vars

\* With no control call made, the loop itself has moved the cursor to the
\* end, set the pause flag and set the pending-shutdown flag (auto-pause),
\* while the stop flag and the accumulated paused time are as play() left
\* them.
C16_Witness ==
    /\ hist.ctl = 0
    /\ event_index = Len(events)
    /\ pause_event
    /\ _pending_shutdown
    /\ ~stop_event
    /\ total_paused_time = 0
    /\ start_time = Epoch

\* C17: no step of stop, toggle_pause or seek calls the backend, and every
\* step that makes a backend call (dispatch or shutdown) is a step of the
\* thread that runs play().
C17_BackendCalledByWorkerOnly ==
    /\ [][Control => UNCHANGED <<backend, calls, batch_calls>>]_vars
    /\ [][calls' # calls \/ backend' # backend => Worker /\ ~Control]_vars

\* A control call (a pause) was made while the backend held a pressed note
\* and the pedal, and the backend still holds them: the call did not
\* release them itself, it left a request for the worker.
C17_Witness ==
    /\ hist.ctl = 1
    /\ pause_event
    /\ _pending_shutdown
    /\ backend.active_notes = {60}
    /\ backend.pedal_down
    /\ calls # <<>>
    /\ calls[Len(calls)].op = "note_on"

\* C18: no step of compile changes the caller's note list or a Note in it
\* (length, order, pitch, velocity, start time, duration, hand), with or
\* without humanization and mistake injection.
C18_CallerNotesUnchanged == [][notes' = notes]_vars

\* compile has returned with humanization and mistake injection on: the
\* humanizer moved the onsets of the working copies, which differ from the
\* caller's notes, and a note was replaced by a mistake pitch.
C18_Witness ==
    /\ cpc = "done"
    /\ config.humanize
    /\ config.enable_mistakes
    /\ Len(notes) = 2
    /\ Len(work) = 2
    /\ \A i \in 1..2 : work[i].start_time = notes[i].start_time + 1
    /\ \E i \in 1..Len(events) : events[i].pitch \notin Pitches \cup {None}

PitchCount(h, P) == Cardinality({i \in 1..Len(h) : h[i].pitch = P})

\* The note compile processes next has the pitch of an earlier note, and
\* the section index has been the same from that note on.
RepeatedInSection ==
    /\ cpc = "notes"
    /\ ni <= Len(work)
    /\ \E j \in 1..(ni - 1) :
          /\ work[j].pitch = work[ni].pitch
          /\ \A k \in j..ni : section_index(work[k], sections)
                                = section_index(work[ni], sections)

\* C20: a note whose pitch P was already processed under the current
\* section index, replaced by a mistake or not, is not replaced by a
\* mistake pitch whatever the random draw: its step adds a press and a
\* release of P itself to the heap.
C20_NoMistakeOnRepeatedPitch ==
    [][RepeatedInSection /\ CompileNote =>
          /\ Len(heap') = Len(heap) + 2
          /\ PitchCount(heap', work[ni].pitch)
               = PitchCount(heap, work[ni].pitch) + 2]_vars

\* Two notes of pitch 60 in the same section were processed with mistakes
\* on: the first was replaced by a mistake pitch, the second, drawn or
\* not, was pressed as 60.
C20_Witness ==
    /\ cpc = "notes"
    /\ ni = 3
    /\ config.enable_mistakes
    /\ sections # <<>>
    /\ work[1].pitch = 60
    /\ work[2].pitch = 60
    /\ section_index(work[1], sections) = section_index(work[2], sections)
    /\ Len(heap) = 4
    /\ PitchCount(heap, 60) = 2
    /\ played_in_section = {60}

\* The number of times event e occurs in heap h.
EventCount(h, e) == Cardinality({i \in 1..Len(h) : h[i] = e})

\* Heap h2 holds what heap h1 holds and, once more each, the press and the
\* release of note n at pitch p.
AddsPressRelease(h1, h2, n, p) ==
    LET press == KeyEvent(n.start_time, 2, "press", "", p, n.velocity)
        release == KeyEvent(n.start_time + n.duration, 4, "release", "", p, 0)
    IN  /\ Len(h2) = Len(h1) + 2
        /\ \A i \in 1..Len(h2) :
              EventCount(h2, h2[i]) =
                  EventCount(h1, h2[i])
                  + (IF h2[i] = press THEN 1 ELSE 0)
                  + (IF h2[i] = release THEN 1 ELSE 0)

\* C21: the step of compile that processes a note adds to the heap
\* exactly one press and one release, both of one pitch: the press at the
\* note's start time with its velocity, the release at its end time. The
\* pitch is the note's own, or, only with mistakes on, one of the mistake
\* candidates of the note's pitch; never both. When compile returns, the
\* events hold one press and one release for each note processed.
C21_OnePressOneReleasePerNote ==
    /\ [][CompileNote =>
            \E p \in {work[ni].pitch}
                     \cup (IF config.enable_mistakes
                           THEN _mistake_pitch(work[ni].pitch) \ {None}
                           ELSE {}) :
               AddsPressRelease(heap, heap', work[ni], p)]_vars
    /\ [](cpc = "done" =>
            /\ Len(SelectSeq(events, LAMBDA e : e.action = "press"))
                 = Len(work)
            /\ Len(SelectSeq(events, LAMBDA e : e.action = "release"))
                 = Len(work))

\* The first of two notes, of pitch 60, was replaced by a mistake: the
\* heap holds a press and a release of a neighbouring white key, at the
\* note's start and end time, and no event of pitch 60.
C21_Witness ==
    /\ cpc = "notes"
    /\ ni = 2
    /\ Len(work) = 2
    /\ work[1].pitch = 60
    /\ work[1].duration = 1
    /\ Len(heap) = 2
    /\ PitchCount(heap, 60) = 0
    /\ \E p \in {59, 62} :
          AddsPressRelease(<<>>, heap, work[1], p)

\* The names of the keys of a frame.
KeyNames == {"multiply"} \cup {ENCODED_KEYS[k] : k \in 1..12}

\* The key that an injected code stands for, by the table of the
\* interface it was handed to.
KeyName(key) ==
    CHOOSE name \in KeyNames :
        key.code = IF key.api = "pynput" THEN VK_CODES[rmc.platform][name]
                   ELSE _SCAN_CODES[name]

\* The digit (0..11) that the key at position i of the frame stands for,
\* as the receiver decodes it.
Digit(i) ==
    CHOOSE k \in 0..11 : ENCODED_KEYS[k + 1] = KeyName(rmc.keys[i])

\* Whether the message just sent is of one of the kinds.
SentCall(kinds) == rmc.pc = "sent" /\ rmc.call[1] \in kinds

\* C22: the four digits of a note-on frame for a pitch and a velocity in
\* 0..127 are in 0..11 and decode to the pitch and the velocity:
\* 12*a + b = pitch and 12*c + d = velocity; the first two digits of a pedal
\* frame decode to 143.
C22_FrameRoundTrip ==
    /\ SentCall({"note_on"}) =>
          /\ \A i \in 2..5 : KeyName(rmc.keys[i]) # "multiply"
          /\ \A i \in 1..4 : rmc.args[i] \in 0..11 /\ Digit(i + 1) = rmc.args[i]
          /\ 12 * Digit(2) + Digit(3) = rmc.call[2]
          /\ 12 * Digit(4) + Digit(5) = rmc.call[3]
    /\ SentCall({"pedal"}) =>
          /\ 12 * rmc.args[1] + rmc.args[2] = 143
          /\ 12 * Digit(2) + Digit(3) = 143

\* The note-on of the largest pitch at the largest velocity was sent as a
\* batched frame whose digits are (10, 7, 10, 7).
C22_Witness ==
    /\ SentCall({"note_on"})
    /\ rmc.call = <<"note_on", 127, 127>>
    /\ rmc.path = "batched"
    /\ <<Digit(2), Digit(3), Digit(4), Digit(5)>> = <<10, 7, 10, 7>>

\* The first two digits of the pedal frames, as the keys carry them.
PedalPrefix ==
    {<<clamp(pedal_components(v)[1]), clamp(pedal_components(v)[2])>> :
        v \in {0, 127}}

\* C23: no note-on or note-off frame of a pitch in 0..127 carries in its
\* first two keys the prefix of a pedal frame, and that prefix is (11, 11).
C23_PedalPrefixUnreachable ==
    /\ SentCall({"note_on", "note_off"}) =>
          /\ <<Digit(2), Digit(3)>> \notin PedalPrefix
          /\ <<Digit(2), Digit(3)>> # <<11, 11>>
    /\ SentCall({"pedal"}) => <<Digit(2), Digit(3)>> = <<11, 11>>

\* The note-off of the largest pitch was sent key by key: its first two
\* digits are (10, 7), the closest a note comes to the pedal prefix.
C23_Witness ==
    /\ SentCall({"note_off"})
    /\ rmc.call[2] = 127
    /\ rmc.path = "per_key"
    /\ <<Digit(2), Digit(3)>> = <<10, 7>>

\* The five keys of the frame for the values of the call, by name.
ExpectedFrame ==
    <<"multiply">> \o
    [i \in 1..4 |->
        ENCODED_KEYS[(IF rmc.args[i] < 0 THEN 0
                      ELSE IF rmc.args[i] > 11 THEN 11
                      ELSE rmc.args[i]) + 1]]

Held(d) ==
    IF d.kind = "numpad"
    THEN {Act("note_off", p) : p \in d.active_notes}
         \cup (IF d.pedal_down THEN {Act("pedal", 0)} ELSE {})
    ELSE {Act("release", d.states[i].key) :
             i \in {j \in 1..Len(d.states) :
                       d.states[j].is_active \/ d.states[j].is_sustained}}
         \cup (IF d.pedal_down THEN {Act("release", "space")} ELSE {})

\* What a call emitted, as a set.
Emitted(d) == {d.out[i] : i \in 1..Len(d.out)}

\* The key-ups that KeyboardBackend.shutdown sends whatever is held.
ModifierReleases ==
    <<Act("release", "shift"), Act("release", "ctrl"), Act("release", "alt")>>

\* The backend state proper: what the backend keeps between calls.
BackendState(d) == <<d.active_notes, d.states, d.pedal_down>>

\* The step is a shutdown() call.
ShutdownStep == dev'.last = "shutdown" /\ backend_shutdown

\* C25 as stated: shutdown() releases every active note and the pedal, and
\* a second shutdown() right after the first emits no output-device action
\* and changes no backend state, for both backends.
C25_SecondShutdownSilent ==
    [][ShutdownStep =>
          /\ Held(dev) \subseteq Emitted(dev')
          /\ Held(dev') = {}
          /\ dev.last = "shutdown" =>
                /\ dev'.out = <<>>
                /\ BackendState(dev') = BackendState(dev)]_vars

\* C25: shutdown() releases every active note and the pedal and leaves
\* none held; a second shutdown() right after the first changes no backend
\* state; on the NumpadBackend it emits nothing, on the KeyboardBackend
\* it emits the key-ups of shift, ctrl and alt, which every shutdown of
\* that backend sends, and nothing else.
C25_ShutdownReleasesAndRepeats ==
    [][ShutdownStep =>
          /\ Held(dev) \subseteq Emitted(dev')
          /\ Held(dev') = {}
          /\ dev.last = "shutdown" =>
                /\ BackendState(dev') = BackendState(dev)
                /\ dev'.out = IF dev.kind = "numpad" THEN <<>>
                              ELSE ModifierReleases]_vars

\* A KeyboardBackend that held a key and the pedal was shut down twice in
\* a row: nothing is held, and the second call emitted the three modifier
\* key-ups only.
C25_Witness ==
    /\ dev.kind = "keyboard"
    /\ dev.last = "shutdown"
    /\ Len(dev.states) = 2
    /\ Held(dev) = {}
    /\ dev.out = ModifierReleases

\* The backend calls made so far without the shutdowns, each as the
\* method and the pitch it was called with.
Dispatch ==
    LET d == SelectSeq(calls, LAMBDA c : c.op # "shutdown")
    IN  [i \in 1..Len(d) |-> <<d[i].op, events[d[i].ev].pitch>>]

IsPrefix(a, b) == Len(a) <= Len(b) /\ a = SubSeq(b, 1, Len(a))

\* The dispatch order the scenario is said to have, with the two notes at
\* 0.0 in either order.
StatedOrders ==
    {<<<<"pedal_on", None>>, <<"note_on", a>>, <<"note_on", 124 - a>>,
       <<"note_off", b>>, <<"note_off", 124 - b>>, <<"note_on", 67>>>> :
        a, b \in {60, 64}}

\* The dispatch order of the scenario: the stated one, then the release of
\* pitch 67 at 0.80.
RunOrders == {Append(o, <<"note_off", 67>>) : o \in StatedOrders}

\* The step is a backend.shutdown() call of the worker.
ShutdownCall ==
    /\ Len(calls') = Len(calls) + 1
    /\ calls'[Len(calls')].op = "shutdown"

\* Pitch 67 has been pressed.
Pressed67 == \E i \in 1..Len(Dispatch) : Dispatch[i] = <<"note_on", 67>>

\* C26 as stated: the backend calls of the scenario are pedal_on, note_on
\* for 60 and 64, note_off for 60 and 64, note_on for 67 and no other
\* dispatch, and a shutdown() made once pitch 67 is pressed, on stop or at
\* the natural end, releases pitch 67 and the pedal.
C26_ShutdownReleases67 ==
    [][/\ \E o \in StatedOrders : IsPrefix(Dispatch', o)
       /\ ShutdownCall /\ Pressed67 =>
             /\ backend.active_notes = {67}
             /\ backend.pedal_down
             /\ backend'.active_notes = {}
             /\ ~backend'.pedal_down]_vars

\* C26: the backend calls of the scenario are, in this order, pedal_on,
\* note_on for 60 and 64, note_off for 60 and 64, note_on for 67 and, at
\* 0.80, note_off for 67; a shutdown() leaves no note and no pedal held;
\* the pedal is released by a shutdown() only; a shutdown() made after the
\* press of 67 and before its release is what releases pitch 67, and one
\* made after the release of 67, as at the natural end, has the pedal
\* alone to release.
C26_ScenarioOrder ==
    [][/\ \E o \in RunOrders : IsPrefix(Dispatch', o)
       /\ backend.pedal_down /\ ~backend'.pedal_down => ShutdownCall
       /\ ShutdownCall =>
             /\ backend'.active_notes = {}
             /\ ~backend'.pedal_down
             /\ Pressed67 /\ Len(Dispatch) = 6 =>
                   backend.active_notes = {67} /\ backend.pedal_down
             /\ Len(Dispatch) = 7 /\ signals.auto_paused = 1
                 /\ pc = "pending_call" =>
                   backend.active_notes = {} /\ backend.pedal_down]_vars

\* The scenario ran to its natural end: the seven events were dispatched,
\* the release of 67 last, the worker paused itself and its shutdown()
\* released the pedal.
C26_Witness ==
    /\ notes = ScenarioNotes
    /\ Dispatch \in RunOrders
    /\ signals.auto_paused = 1
    /\ calls[Len(calls)].op = "shutdown"
    /\ backend = [active_notes |-> {}, pedal_down |-> FALSE]
    /\ ~stop_event

\* The worker is in the statements of the auto-pause, lines 279-285.
InAutoPause == pc \in {"ap_ts", "ap_set", "ap_pending"}

\* The resumes made so far by toggle_pause.
Resumes == signals.status["Resuming..."]

\* C27: the worker enters the auto-pause only from the end check, with the
\* cursor at or past the end of the sequence and pt > total_duration + 0.1;
\* it emits auto_paused there only, having set the pause flag, and sets
\* the pending-shutdown flag with the emission; and it enters the
\* auto-pause again only after toggle_pause has resumed the player: the
\* emissions, the one under way included, are at most one more than the
\* resumes.
C27_AutoPausedOncePerRun ==
    /\ [][InAutoPause' /\ ~InAutoPause =>
             /\ pc = "end_chk"
             /\ event_index >= Len(events)
             /\ loc.pt > total_duration + Grace]_vars
    /\ [][pc' = "ap_pending" /\ pc # "ap_pending" =>
             pc = "ap_set" /\ pause_event']_vars
    /\ [][signals'.auto_paused # signals.auto_paused =>
             /\ pc = "ap_pending"
             /\ signals'.auto_paused = signals.auto_paused + 1
             /\ _pending_shutdown']_vars
    /\ [](signals.auto_paused + (IF InAutoPause THEN 1 ELSE 0) <= Resumes + 1)

\* The events dispatched since the resume that hist.restart records.
Replayed ==
    {calls[i].ev : i \in {j \in 1..Len(calls) :
                             j > hist.restart /\ calls[j].op # "shutdown"}}

\* The step is a toggle_pause that resumes a player whose cursor is at or
\* past the end of the sequence.
ResumeAtEnd == TogglePause /\ pause_event /\ event_index >= Len(events)

\* C28: when toggle_pause resumes a paused player whose cursor is at or
\* past the end, the cursor is 0 and the playback time is 0 when the call
\* returns; and, with no control call after that resume, the sequence is
\* dispatched again from its first event: whenever the worker begins an
\* iteration of its loop, every event the cursor has passed has been
\* dispatched since the resume.
C28_ResumeAtEndReplays ==
    /\ [][ResumeAtEnd => event_index' = 0 /\ PT' = 0]_vars
    /\ [](hist.restart >= 0 /\ pc = "while" =>
            \A k \in 1..Len(events) : k <= event_index => k \in Replayed)

\* C29: when play() enters the loop, the cursor is 0 and the accumulated
\* paused time is 0, and every playback time the worker then computes is
\* at least 0 and at most the time since the clock reference, also when
\* toggle_pause or seek was called during the countdown.
C29_PlaybackTimeFromReference ==
    /\ [][pc = "reset_index" /\ pc' = "run_loop" =>
             event_index' = 0 /\ total_paused_time' = 0]_vars
    /\ [](pc = "end_chk" =>
             loc.pt >= 0 /\ loc.pt <= loc.w_now - start_time)

\* C30: once stop() has been called, in whatever state, the worker loop
\* exits and play() returns, with no further control call needed; and
\* after a stop issued during the countdown no event is ever dispatched.
C30_StopTerminates ==
    /\ stop_event ~> pc = "done"
    /\ [](pc = "cd" /\ stop_event => [](Dispatch = <<>>))

\* play() has returned after a stop() made on a player that toggle_pause
\* had paused after events were dispatched.
C30_Witness ==
    /\ pc = "done"
    /\ stop_event
    /\ signals.status["Paused."] = 1
    /\ signals.finished = 1
    /\ Dispatch # <<>>

\* The positions of the maximal run of consecutive events from position i
\* on whose time is at most the time of events[i] plus the tolerance.
MaximalRun(i) ==
    LET last == CHOOSE j \in i..Len(events) :
                    /\ \A k \in i..j : events[k].time <= events[i].time + BatchTol
                    /\ j < Len(events) =>
                          events[j + 1].time > events[i].time + BatchTol
    IN  [k \in 1..(last - i + 1) |-> i + k - 1]

\* How often event k has been dispatched.
TimesDispatched(k) == Cardinality({i \in 1..Len(calls) : calls[i].ev = k})

\* C31: with no seek made, a batch the loop has collected is the maximal
\* run of consecutive events from the cursor on whose time is at most the
\* time of the first plus 0.0005 s, the window staying at the first event;
\* the cursor has advanced by the size of the batch; no event is dispatched
\* twice, and in a run that reached its natural end every compiled event
\* has been dispatched exactly once.
C31_BatchIsAnchoredRun ==
    hist.seeks = 0 =>
        /\ pc = "exec" =>
              /\ loc.batch = MaximalRun(loc.nxt)
              /\ event_index = (loc.nxt - 1) + Len(loc.batch)
        /\ \A k \in 1..Len(events) : TimesDispatched(k) <= 1
        /\ signals.auto_paused >= 1 =>
              \A k \in 1..Len(events) : TimesDispatched(k) = 1

\* A batch of three events is collected and the fourth event, one tick
\* after the batch's last and two after its first, is left for the next.
C31_Witness ==
    /\ pc = "exec"
    /\ hist.seeks = 0
    /\ loc.batch = <<1, 2, 3>>
    /\ Len(events) = 4
    /\ events[4].time = events[3].time + BatchTol
    /\ events[4].time > events[1].time + BatchTol
    /\ event_index = 3

\* Section sec holds the onset of note n; the end_time is outside.
Holds(sec, n) == sec.start_time <= n.start_time /\ n.start_time < sec.end_time

\* idx is the 0-based index of the first section of the list that holds
\* the onset of note n, or -1 and no section holds it.
IsFirstSection(idx, n) ==
    \/ idx = -1 /\ \A i \in 1..Len(sections) : ~Holds(sections[i], n)
    \/ /\ idx \in 0..(Len(sections) - 1)
       /\ Holds(sections[idx + 1], n)
       /\ \A i \in 1..idx : ~Holds(sections[i], n)

\* The step processes the next note of the loop of lines 93-127.
NoteProcessed == cpc = "notes" /\ ni' = ni + 1

\* C32: each note processed gets the index of the first section in list
\* order that holds its onset, the end_time excluded, and -1 when none
\* does; the played-in-section set is cleared exactly when that index
\* differs from the index of the note processed before (-1 before the
\* first), and a note that no section holds is processed like any other:
\* its press and release are pushed and the loop goes on.
C32_SectionOfNote ==
    /\ [][NoteProcessed =>
             /\ IsFirstSection(cur_sec', work[ni])
             /\ played_in_section' =
                   (IF cur_sec' # cur_sec THEN {} ELSE played_in_section)
                   \cup {work[ni].pitch}
             /\ Len(heap') = Len(heap) + 2]_vars
    /\ [](cpc = "notes" =>
             IF ni = 1 THEN cur_sec = -1 /\ played_in_section = {}
             ELSE IsFirstSection(cur_sec, work[ni - 1]))
    /\ [](cpc = "done" => ni = Len(work) + 1 /\ Len(events) = 2 * Len(work))

\* Two notes of different pitch were processed, the first in section 0
\* and the second, whose onset is the end_time of section 0, in section
\* 1, and the set holds the second pitch only.
C32_Witness ==
    /\ cpc = "notes"
    /\ ni = 3
    /\ Len(sections) = 2
    /\ Holds(sections[1], work[1])
    /\ work[2].start_time = sections[1].end_time
    /\ cur_sec = 1
    /\ work[1].pitch # work[2].pitch
    /\ played_in_section = {work[2].pitch}

\* The events of a list that are pedal events, and those that are not.
PedalsOf(h) == SelectSeq(h, LAMBDA e : e.action = "pedal")
NotesOf(h) == SelectSeq(h, LAMBDA e : e.action # "pedal")

\* C33: every event the pedal generator returned is in the compiled
\* output as often as the generator returned it, the output is in the
\* order of KeyEvent over pedal and note events alike, and it holds
\* nothing but these pedal events and one press and one release for each
\* note processed: its length is 2 * notes + pedal events.
C33_PedalsMerged ==
    /\ [][cpc = "notes" /\ cpc' = "pop" =>
             /\ Len(heap') = Len(heap) + Len(pedal_events)
             /\ \A i \in 1..Len(heap') :
                   EventCount(heap', heap'[i]) =
                       EventCount(heap, heap'[i])
                       + EventCount(pedal_events, heap'[i])]_vars
    /\ [](cpc = "done" =>
             /\ Len(events) = 2 * Len(work) + Len(pedal_events)
             /\ \A i \in 1..Len(pedal_events) :
                   EventCount(events, pedal_events[i]) =
                       EventCount(pedal_events, pedal_events[i])
             /\ Len(PedalsOf(events)) = Len(pedal_events)
             /\ Len(SelectSeq(events, LAMBDA e : e.action = "press"))
                   = Len(work)
             /\ Len(SelectSeq(events, LAMBDA e : e.action = "release"))
                   = Len(work)
             /\ \A i, j \in 1..Len(events) :
                   i < j => ~KeyEventLT(events[j], events[i]))

\* Two notes were compiled with two pedal events that the generator
\* returned out of time order: the output has six events and the pedal
\* events stand in it in time order.
C33_Witness ==
    /\ cpc = "done"
    /\ Len(work) = 2
    /\ Len(pedal_events) = 2
    /\ pedal_events[1].time > pedal_events[2].time
    /\ Len(events) = 6
    /\ PedalsOf(events) = <<pedal_events[2], pedal_events[1]>>
    /\ Len(NotesOf(events)) = 4

\* play() has not yet made the shutdown() of its finally block.
BeforeExitShutdown == pc \notin {"emit_finished", "done"}

\* The numbers of shutdown() calls a session can have made when a request
\* is pending: one for each control call and auto-pause, and the exit's.
ShutdownCounts == 0..(2 * MaxStopCtl + 2)

\* C34: inside the loop backend.shutdown() is called only by the statement
\* of line 268, which the worker reaches only after it read the pending
\* flag set (line 266) and cleared it (line 267), and after which it must
\* pass the while test, that is begin another iteration, to reach it
\* again; and no request is lost: whenever the flag is set, by
\* toggle_pause, seek or the auto-pause, before play() made its last
\* shutdown(), another backend.shutdown() call follows.
C34_PendingShutdownServed ==
    /\ [][ShutdownCall => pc \in {"pending_call", "finally"}]_vars
    /\ [][pc' = "pending_call" /\ pc # "pending_call" =>
             pc = "pending_clear" /\ ~_pending_shutdown']_vars
    /\ [][pc' = "pending_clear" /\ pc # "pending_clear" =>
             pc = "pending" /\ _pending_shutdown]_vars
    /\ [][pc' = "pending" /\ pc # "pending" => pc = "while"]_vars
    /\ [][pc = "pending_call" /\ pc' # pc =>
             ShutdownCall /\ pc' = "pause_chk"]_vars
    /\ \A n \in ShutdownCounts :
          (_pending_shutdown /\ BeforeExitShutdown /\ NumShutdown = n)
              ~> (NumShutdown > n)

\* A seek set the flag again after the worker cleared it and before the
\* worker's shutdown() call of the same iteration.
C34_Witness ==
    /\ pc = "pending_call"
    /\ _pending_shutdown
    /\ hist.seeks >= 1

\* C35: from the moment toggle_pause sets the pause flag until the flag is
\* cleared, no step of the worker dispatches a note_on, note_off or pedal
\* call or moves the event cursor, also when the pause arrives while the
\* worker is waiting for the next event. (With no auto-pause made or under
\* way, a set pause flag was set by toggle_pause; a step that leaves
\* hist.ctl as it is is a step of the worker.)
C35_PausedWorkerIdle ==
    [][/\ pause_event /\ pause_event'
       /\ signals.auto_paused = 0 /\ ~InAutoPause
       /\ hist'.ctl = hist.ctl
       => Dispatch' = Dispatch /\ event_index' = event_index]_vars

\* C36: whenever the worker is about to evaluate events[event_index], at
\* line 289 after the end test of line 277 or at line 298 after the loop
\* condition of line 297, the cursor is below len(events), whatever seek
\* or toggle_pause did in between; and the cursor is always within
\* 0..len(events).
C36_CursorInRange ==
    /\ pc \in {"nxt", "batch_get"} => event_index < Len(events)
    /\ event_index \in 0..Len(events)

\* The step is a dispatch: a backend call other than shutdown().
DispatchCall ==
    /\ Len(calls') = Len(calls) + 1
    /\ calls'[Len(calls')].op # "shutdown"

\* C37: whenever the worker makes the backend call for an event, the
\* playback time at that moment is at least the event's time minus the
\* batch tolerance, also when a seek, forwards or backwards, landed while
\* the worker was waiting for the event it had chosen. (The sessions
\* looked at have no pause: the playback time is that of line 275 at the
\* clock reading of the call.)
C37_NoEarlyDispatch ==
    [][/\ DispatchCall
       /\ signals.status["Paused."] = 0
       /\ signals.auto_paused = 0
       => PT >= events[calls'[Len(calls')].ev].time - BatchTol]_vars

\* C38: a seek is not lost to the cursor increment of line 301: the store
\* of the increment puts the cursor one past where it is, not one past
\* where it was before a seek moved it; and after a seek, with no control
\* call since, the first event the worker dispatches is the one at the
\* position the seek found, bisect_left(times, t).
C38_SeekNotLost ==
    /\ [][pc = "batch_inc_write" /\ pc' = "batch_cond" =>
             event_index' = event_index + 1]_vars
    /\ [][DispatchCall /\ hist.sought >= 0 =>
             calls'[Len(calls')].ev = hist.sought + 1]_vars

\* The valid pitches.
MidiPitches == 0..127

\* Pitch p can stand for the true pitch q of a note: it is q, or a mistake
\* pitch 1 or 2 semitones from q that is a white key when q is one.
StandsFor(p, q) ==
    \/ p = q
    \/ /\ p - q \in {-2, -1, 1, 2}
       /\ ~is_black_key(q) => ~is_black_key(p)

\* C39: for notes whose pitches are within 0..127, the press and the
\* release compile pushes for a note carry the note's pitch or a mistake
\* pitch 1 or 2 semitones from it, white when the true pitch is white, and
\* every press and release event of the heap and of the output has a pitch
\* within 0..127, at both ends of the keyboard.
C39_PitchesInRange ==
    /\ [][NoteProcessed =>
             \E p \in (work[ni].pitch - 2)..(work[ni].pitch + 2) :
                /\ StandsFor(p, work[ni].pitch)
                /\ AddsPressRelease(heap, heap', work[ni], p)]_vars
    /\ [](\A i \in 1..Len(heap) :
             heap[i].action # "pedal" => heap[i].pitch \in MidiPitches)
    /\ [](\A i \in 1..Len(events) :
             events[i].action # "pedal" => events[i].pitch \in MidiPitches)

\* C40: compile drops no note: when it returns, the output holds as many
\* press events, and as many release events, as the caller's list has
\* notes, whatever the hand of a note is (left, right or unknown), with
\* humanization off and on.
C40_NoNoteDropped ==
    cpc = "done" =>
        /\ Len(SelectSeq(events, LAMBDA e : e.action = "press")) = Len(notes)
        /\ Len(SelectSeq(events, LAMBDA e : e.action = "release")) = Len(notes)

====
